---- MODULE Spec2Model ----
(***************************************************************************)
(* A model of the padify image tool (src/padify/src/main.rs): the pipeline *)
(* of main (open, background, crop, padding, canvas, save) as a state      *)
(* machine, with the pure functions it calls as operators.                 *)
(*                                                                         *)
(* Representation.                                                         *)
(*  - A pixel Rgba<u8> is the tuple <<r, g, b, a>>, channels in 0..255.     *)
(*  - An RgbaImage is [w, h, rows]: rows[y+1] is row y, stored as a        *)
(*    run-length list of <<n, pixel>> (n > 0, neighbouring runs differ).   *)
(*    get_pixel(x, y) is GetPixel; every loop of the source over pixels is *)
(*    a loop over GetPixel here.                                           *)
(*  - A u32 that may be near 2^32 (the padding amounts, the canvas size)   *)
(*    is the pair <<hi, lo>> of its 16-bit halves, value hi * 2^16 + lo.   *)
(*    Image dimensions, which stay small, are plain naturals.              *)
(*  - Option<T> is <<>> (None) or <<v>> (Some(v)).                         *)
(*  - A string is the tuple of its one-character strings.                  *)
(*  - An f32 product m * c is computed exactly: see F32Mul.                *)
(***************************************************************************)
EXTENDS Integers, Sequences, FiniteSets, TLC

VARIABLES
    pc,          \* position of main: start, opened, border_scan, overall_scan,
                 \* bg_done, cropped, padded, sized, composed, done, error, abort
    args,        \* the parsed command line (struct Args)
    file,        \* the input file: <<image>> when it decodes, <<>> when not
    rgba,        \* main's rgba buffer (<<>> before the open)
    bg,          \* main's bg colour (<<>> before it is determined)
    sample,      \* dominant_sample's locals while it scans its bucket map
    border,      \* deduce_background's border SampleResult (<<>> when unset)
    crop_result, \* main's crop_result (<<>> before the crop)
    pad,         \* (pad_x, pad_y) of resolve_padding (<<>> before)
    dims,        \* (new_w, new_h) of padded_dimensions (<<>> before)
    canvas,      \* main's canvas (<<>> before the allocation)
    dest,        \* the destination file: <<>> absent, <<image>> written
    reads,       \* number of times the input was opened
    writes,      \* number of times the destination was written
    stages,      \* the stages run so far, in order (a history of main)
    stderr,      \* the lines main printed to stderr
    err,         \* the error main returned ("" when none)
    \* The spawn tool (src/spawn/src/main.rs).
    s_pc,        \* position of spawn's main ("off" when spawn is not run)
    cli,         \* the parsed command line (struct Cli)
    todo_file,   \* the markdown file: <<content>> when readable, <<>> when not
    stdin,       \* what read_line finds: <<line>>, or <<>> when it fails
    prompts,     \* main's prompts
    harness,     \* main's normalized harness_cmd (<<>> before)
    tmux,        \* spawn_tmux's locals
    tmux_log,    \* the tmux commands run so far, in order
    s_out,       \* what spawn printed to stdout
    s_err,       \* the error spawn's main returned ("" when none)
    \* The rmdbg tool (src/rmdbg/src/main.rs), process_file on one file.
    r_pc,        \* position of process_file ("off" when rmdbg is not run)
    path,        \* the content of the file at path
    temp_path,   \* the file at temp_path: <<content>>, or <<>> when absent
    original,    \* the content of the file at path when process_file began
    r_lines,     \* process_file's lines
    r_i,         \* process_file's i
    buffer,      \* process_file's buffer of import and blank lines
    pending,     \* the write_all calls of the iteration still to be made
    writer,      \* the BufWriter: its buf, the path its file is now at, and
                 \* whether a write to the file has failed
    r_err        \* the error process_file returned ("" when none)

padify_vars == <<pc, args, file, rgba, bg, sample, border, crop_result, pad,
                 dims, canvas, dest, reads, writes, stages, stderr, err>>

spawn_vars == <<s_pc, cli, todo_file, stdin, prompts, harness, tmux, tmux_log,
                s_out, s_err>>

rmdbg_vars == <<r_pc, path, temp_path, original, r_lines, r_i, buffer, pending,
                writer, r_err>>

\* The state of the tools other than padify.
other_vars == <<spawn_vars, rmdbg_vars>>

vars == <<padify_vars, spawn_vars, rmdbg_vars>>

None == <<>>
Some(v) == <<v>>

Max(a, b) == IF a >= b THEN a ELSE b
Min(a, b) == IF a <= b THEN a ELSE b
Abs(a) == IF a < 0 THEN -a ELSE a

\* A loop `for i in lo..hi` with the loop-carried state st: Step(st, i) is one
\* turn.  The turns are taken in order; the range is halved, and the state
\* after the first half compared with itself (which is always true), only to
\* keep the evaluation shallow.
RECURSIVE ForRange(_, _, _, _)
ForRange(Step(_, _), st, lo, hi) ==
    IF hi <= lo THEN st
    ELSE IF hi = lo + 1 THEN Step(st, lo)
    ELSE LET mid == (lo + hi) \div 2
             half == ForRange(Step, st, lo, mid)
         IN  IF half = half THEN ForRange(Step, half, mid, hi) ELSE st

(***************************************************************************)
(* Bounds of the model.                                                    *)
(***************************************************************************)
\* Rows of the images the crop stage is run on exhaustively.
MaxRows == 6
\* Rows of those of them that are also run with the other backgrounds.
MaxAutoRows == 3
\* Width of those images: the least at which one pixel of a row is more than
\* 0.005 and not more than 0.02 of it.
CropWidth == 50
\* Side of the square images the background estimator is run on: the least
\* with a pixel outside the border band of 8.
BgSide == 17

(***************************************************************************)
(* Pixels and images.                                                      *)
(***************************************************************************)
White == <<255, 255, 255, 255>>
Black == <<0, 0, 0, 255>>
Clear == <<0, 0, 0, 0>>
\* 18 away from white in total: still background at diff_threshold 18.
NearWhite == <<250, 250, 247, 255>>
\* 19 away from white in total: the first non-background distance.
OffWhite == <<250, 250, 246, 255>>

RECURSIVE RunAt(_, _)
RunAt(runs, x) ==
    IF x < runs[1][1] THEN runs[1][2] ELSE RunAt(Tail(runs), x - runs[1][1])

\* image.get_pixel(x, y)
GetPixel(image, x, y) == RunAt(image.rows[y + 1], x)

\* The run-length form of the row f[0], ..., f[w-1].
EncodeRow(f, w) ==
    LET Put(acc, x) ==
            IF acc # <<>> /\ acc[Len(acc)][2] = f[x]
            THEN [acc EXCEPT ![Len(acc)] = <<acc[Len(acc)][1] + 1, f[x]>>]
            ELSE Append(acc, <<1, f[x]>>)
    IN  ForRange(Put, <<>>, 0, w)

\* The image of width w and height h whose pixel at (x, y) is px[y][x].
ImageOf(w, h, px) ==
    [w |-> w, h |-> h, rows |-> [y \in 1..h |-> EncodeRow(px[y - 1], w)]]

(***************************************************************************)
(* f32 arithmetic.  Counts, heights and medians are small integers or      *)
(* halves, which f32 holds exactly; the decimal thresholds are not, and    *)
(* each is the pair <<c, k>> of its f32 value c / 2^k.                     *)
(***************************************************************************)
\* 0.7f32, 0.35f32, 0.2f32 and 0.6f32 (lines 307, 330, 331, 333).
F32_0_7 == <<11744051, 24>>
F32_0_35 == <<11744051, 25>>
F32_0_2 == <<13421773, 26>>
F32_0_6 == <<5033165, 23>>

RECURSIVE BitLen(_)
BitLen(n) == IF n = 0 THEN 0 ELSE 1 + BitLen(n \div 2)

\* n rounded to 24 significant bits, ties to even: the rounding of an f32
\* operation whose exact result has the integer significand n.
RoundTo24(n) ==
    IF BitLen(n) <= 24 THEN n
    ELSE LET s == BitLen(n) - 24
             q == n \div (2 ^ s)
             r == n % (2 ^ s)
             half == 2 ^ (s - 1)
             up == r > half \/ (r = half /\ q % 2 = 1)
         IN  (IF up THEN q + 1 ELSE q) * (2 ^ s)

\* The f32 product of m2 / 2 (m2 a small natural) and the f32 c, as the pair
\* <<p, k>> of its value p / 2^k.
F32Mul(m2, c) == <<RoundTo24(m2 * c[1]), c[2] + 1>>

\* (n as f32) < v, for a natural n and an f32 v >= 0.
F32Lt(n, v) == v[1] > 0 /\ n < ((v[1] - 1) \div (2 ^ v[2])) + 1

\* v.round() as u32 (f32::round rounds half away from zero), for v >= 0.
F32Round(v) == (v[1] + 2 ^ (v[2] - 1)) \div (2 ^ v[2])

(***************************************************************************)
(* clamp_u32, is_background, median_u32.                                   *)
(***************************************************************************)
clamp_u32(value, min, max) ==
    IF value < min THEN min ELSE IF value > max THEN max ELSE value

is_background(pixel, bgc, threshold) ==
    LET dr == Abs(pixel[1] - bgc[1])
        dg == Abs(pixel[2] - bgc[2])
        db == Abs(pixel[3] - bgc[3])
        da == Abs(pixel[4] - bgc[4])
    IN  dr + dg + db + da <= threshold

\* values.sort_unstable(), as an insertion sort.
RECURSIVE Insert(_, _)
Insert(sorted, v) ==
    IF sorted = <<>> THEN <<v>>
    ELSE IF v <= sorted[1] THEN <<v>> \o sorted
    ELSE <<sorted[1]>> \o Insert(Tail(sorted), v)

RECURSIVE sort_unstable(_)
sort_unstable(values) ==
    IF values = <<>> THEN <<>> ELSE Insert(sort_unstable(Tail(values)), values[1])

\* median_u32: None for no values, else Some of TWICE the median (the median
\* of naturals is a natural or a natural and a half, both exact in f32).
median_u32(values) ==
    IF values = <<>> THEN None
    ELSE LET sorted == sort_unstable(values)
             mid == Len(sorted) \div 2
         IN  IF Len(sorted) % 2 = 1
             THEN Some(2 * sorted[mid + 1])
             ELSE Some(sorted[mid] + sorted[mid + 1])

(***************************************************************************)
(* The crop stage: CropResult and auto_crop_bottom_partial.                *)
(***************************************************************************)
diff_threshold == 18
\* major_threshold 0.02f32 and minor_threshold 0.005f32, as fractions.
major_threshold == <<2, 100>>
minor_threshold == <<5, 1000>>

\* crop_imm measuring its rectangle from the bottom edge.
crop_imm_bottom(image, x, y, width, height) ==
    LET x0 == Min(x, image.w)
        ch == Min(height, image.h - Min(y, image.h))
        cw == Min(width, image.w - x0)
        y0 == image.h - ch
    IN  ImageOf(cw, ch,
            [yy \in 0..ch - 1 |->
                [xx \in 0..cw - 1 |-> GetPixel(image, x0 + xx, y0 + yy)]])

\* image::imageops::crop_imm(image, x, y, width, height).to_image(): the
\* rectangle is clipped to the image and its pixels are copied out.
crop_imm(image, x, y, width, height) ==
    LET x0 == Min(x, image.w)
        y0 == Min(y, image.h)
        ch == Min(height, image.h - y0)
        cw == Min(width, image.w - x0)
    IN  ImageOf(cw, ch,
            [yy \in 0..ch - 1 |->
                [xx \in 0..cw - 1 |-> GetPixel(image, x0 + xx, y0 + yy)]])

\* CropResult::no_crop
no_crop(image, reason) ==
    [image |-> image,
     report |-> [original_height |-> image.h, new_height |-> image.h,
                 reason |-> reason]]

\* cropped with its two heights taken for each other.
cropped_swapped(image, original_height, reason) ==
    [image |-> image,
     report |-> [original_height |-> image.h, new_height |-> original_height,
                 reason |-> reason]]

\* CropResult::cropped
cropped(image, original_height, reason) ==
    [image |-> image,
     report |-> [original_height |-> original_height, new_height |-> image.h,
                 reason |-> reason]]

\* The columns (0..w).step_by(stride_x) of a row.
SampledColumns(w) ==
    LET stride_x == Max(1, w \div 400)
    IN  {x \in 0..w - 1 : x % stride_x = 0}

\* <<non_bg, samples>> of row y (lines 241-249).
RowCounts(image, bgc, y) ==
    LET xs == SampledColumns(image.w)
    IN  <<Cardinality({x \in xs :
                ~is_background(GetPixel(image, x, y), bgc, diff_threshold)}),
          Cardinality(xs)>>

\* ratio > threshold, where ratio is 0.0 for no samples and else the f32
\* quotient non_bg / samples.  A row has fewer than 800 samples, so a quotient
\* that is not the threshold's fraction itself is further from it than an f32
\* rounding can move it, and the quotient that is the fraction rounds to the
\* very f32 the literal does: the f32 test is the test on the fractions.
RatioAbove(counts, threshold) ==
    /\ counts[2] # 0
    /\ counts[1] * threshold[2] > threshold[1] * counts[2]

\* major_rows and minor_rows (lines 258-259), index i at position i + 1.
RowsAbove(image, bgc, threshold) ==
    [i \in 1..image.h |-> RatioAbove(RowCounts(image, bgc, i - 1), threshold)]

\* One turn of the loop of lines 264-273, on [clusters, in_cluster, start].
ClusterTurn(major_rows, st, i) ==
    LET has_content == major_rows[i + 1]
    IN  IF has_content /\ ~st.in_cluster
        THEN [st EXCEPT !.start = i, !.in_cluster = TRUE]
        ELSE IF ~has_content /\ st.in_cluster
        THEN [st EXCEPT !.clusters = Append(@, <<st.start, Max(i - 1, 0)>>),
                        !.in_cluster = FALSE]
        ELSE st

\* clusters (lines 261-276)
Clusters(major_rows, h) ==
    LET Turn(st, i) == ClusterTurn(major_rows, st, i)
        st == ForRange(Turn, [clusters |-> <<>>, in_cluster |-> FALSE, start |-> 0],
                       0, Len(major_rows))
    IN  IF st.in_cluster
        THEN Append(st.clusters, <<st.start, Max(h - 1, 0)>>)
        ELSE st.clusters

\* rows.iter().rev().take_while(|v| !v).count(): the positions from which
\* on no row holds TRUE.
TrailingFalse(rows) ==
    Cardinality({i \in 1..Len(rows) : \A j \in i..Len(rows) : ~rows[j]})

\* rows.iter().rposition(|v| v): the last index holding TRUE.
rposition(rows) ==
    IF \E i \in 1..Len(rows) : rows[i]
    THEN Some((CHOOSE i \in 1..Len(rows) :
                  rows[i] /\ \A j \in i + 1..Len(rows) : ~rows[j]) - 1)
    ELSE None

\* e.saturating_sub(s) + 1
ClusterHeight(c) == Max(c[2] - c[1], 0) + 1

SelectSeqGe4(hs) == SelectSeq(hs, LAMBDA v : v >= 4)

\* heights (lines 288-300)
CandidateHeights(clusters) ==
    LET n == Len(clusters)
        firsts == [i \in 1..Max(n - 1, 0) |-> ClusterHeight(clusters[i])]
        kept == SelectSeqGe4(firsts)
    IN  IF kept = <<>> THEN [i \in 1..n |-> ClusterHeight(clusters[i])]
        ELSE kept

\* The while loop of lines 320-322.
RECURSIVE WalkBack(_, _)
WalkBack(minor_rows, start_minor) ==
    IF start_minor > 0 /\ minor_rows[start_minor]
    THEN WalkBack(minor_rows, start_minor - 1)
    ELSE start_minor

\* The locals of auto_crop_bottom_partial for a non-degenerate image.
CropLocals(image, bgc) ==
    LET major_rows == RowsAbove(image, bgc, major_threshold)
        minor_rows == RowsAbove(image, bgc, minor_threshold)
        clusters == Clusters(major_rows, image.h)
        med == median_u32(CandidateHeights(clusters))
    IN  [major_rows |-> major_rows,
         minor_rows |-> minor_rows,
         clusters |-> clusters,
         bottom_margin_major |-> TrailingFalse(major_rows),
         \* median_u32(..).unwrap_or(0.0), doubled
         median2 |-> IF med = None THEN 0 ELSE med[1]]

\* The partial-line rule without its test of the bottom margin.
PartialLine_any_margin(image, L) ==
    IF Len(L.clusters) >= 2 /\ L.median2 > 0
    THEN LET last == L.clusters[Len(L.clusters)]
             last_height == ClusterHeight(last)
         IN  IF F32Lt(last_height, F32Mul(L.median2, F32_0_7)) /\ last[1] > 0
             THEN Some([image |-> crop_imm(image, 0, 0, image.w, last[1]),
                        report |-> [original_height |-> image.h,
                                    new_height |-> Min(last[1], image.h),
                                    reason |-> "partial_line"]])
             ELSE None
    ELSE None

\* Lines 304-313: Some(result) when the partial-line rule crops.
PartialLine(image, L) ==
    IF Len(L.clusters) >= 2 /\ L.bottom_margin_major <= 2 /\ L.median2 > 0
    THEN LET last == L.clusters[Len(L.clusters)]
             last_height == ClusterHeight(last)
         IN  IF F32Lt(last_height, F32Mul(L.median2, F32_0_7)) /\ last[1] > 0
             THEN Some(cropped(crop_imm(image, 0, 0, image.w, last[1]),
                               image.h, "partial_line"))
             ELSE None
    ELSE None

\* The cursor/residue rule without its test of the gap.
CursorResidue_any_gap(image, L) ==
    LET last_major == rposition(L.major_rows)
        last_minor == rposition(L.minor_rows)
    IN  IF last_major # None /\ last_minor # None /\ last_minor[1] > last_major[1]
        THEN LET start_minor == WalkBack(L.minor_rows, last_minor[1])
                 block_height == last_minor[1] - start_minor + 1
                 line_height2 == IF L.median2 > 0 THEN L.median2
                                 ELSE 2 * clamp_u32(image.h \div 30, 12, 28)
             IN  IF F32Lt(block_height, F32Mul(line_height2, F32_0_6))
                 THEN Some(cropped(crop_imm(image, 0, 0, image.w, start_minor),
                                   image.h, "cursor_residue"))
                 ELSE None
        ELSE None

\* Lines 315-339: Some(result) when the cursor/residue rule crops.
CursorResidue(image, L) ==
    LET last_major == rposition(L.major_rows)
        last_minor == rposition(L.minor_rows)
    IN  IF last_major # None /\ last_minor # None /\ last_minor[1] > last_major[1]
        THEN LET start_minor == WalkBack(L.minor_rows, last_minor[1])
                 block_height == last_minor[1] - start_minor + 1
                 gap == Max(start_minor - (last_major[1] + 1), 0)
                 line_height2 == IF L.median2 > 0 THEN L.median2
                                 ELSE 2 * clamp_u32(image.h \div 30, 12, 28)
                 thin_block == F32Lt(block_height, F32Mul(line_height2, F32_0_35))
                 min_gap == Max(2, F32Round(F32Mul(line_height2, F32_0_2)))
                 gap_ok == gap >= min_gap \/ (thin_block /\ gap >= 1)
             IN  IF gap_ok /\ F32Lt(block_height, F32Mul(line_height2, F32_0_6))
                 THEN Some(cropped(crop_imm(image, 0, 0, image.w, start_minor),
                                   image.h, "cursor_residue"))
                 ELSE None
        ELSE None

\* auto_crop_bottom_partial trying the cursor/residue rule first.
auto_crop_residue_first(image, bgc) ==
    IF image.w = 0 \/ image.h = 0 THEN no_crop(image, "empty")
    ELSE LET L == CropLocals(image, bgc)
         IN  IF L.clusters = <<>> THEN no_crop(image, "no_clusters")
             ELSE LET partial == PartialLine(image, L)
                      residue == CursorResidue(image, L)
                  IN  IF residue # None THEN residue[1]
                      ELSE IF partial # None THEN partial[1]
                      ELSE no_crop(image, "clean")

auto_crop_bottom_partial(image, bgc) ==
    IF image.w = 0 \/ image.h = 0 THEN no_crop(image, "empty")
    ELSE LET L == CropLocals(image, bgc)
         IN  IF L.clusters = <<>> THEN no_crop(image, "no_clusters")
             ELSE LET partial == PartialLine(image, L)
                      residue == CursorResidue(image, L)
                  IN  IF partial # None THEN partial[1]
                      ELSE IF residue # None THEN residue[1]
                      ELSE no_crop(image, "clean")

(***************************************************************************)
(* u32 arithmetic on 16-bit halves, and Result.                            *)
(***************************************************************************)
K16 == 256 * 256

\* The u32 of a natural below 2^31.
ToU32(n) == <<n \div K16, n % K16>>

\* u32::MAX
U32Max == <<K16 - 1, K16 - 1>>

\* a.wrapping_mul(2)
wrapping_mul2(a) ==
    Some(<<(2 * a[1] + (2 * a[2]) \div K16) % K16, (2 * a[2]) % K16>>)

\* a.checked_mul(2)
checked_mul2(a) ==
    LET lo == 2 * a[2]
        hi == 2 * a[1] + lo \div K16
    IN  IF hi >= K16 THEN None ELSE Some(<<hi, lo % K16>>)

\* a.checked_add(b)
checked_add(a, b) ==
    LET lo == a[2] + b[2]
        hi == a[1] + b[1] + lo \div K16
    IN  IF hi >= K16 THEN None ELSE Some(<<hi, lo % K16>>)

Ok(v) == [ok |-> TRUE, v |-> v, e |-> ""]
Err(e) == [ok |-> FALSE, v |-> <<>>, e |-> e]

(***************************************************************************)
(* padded_dimensions, auto_pad, resolve_padding.                           *)
(***************************************************************************)
\* (w, h), pad_x and pad_y are u32s.
padded_dimensions(d, pad_x, pad_y) ==
    LET pad_x2 == checked_mul2(pad_x)
        pad_y2 == checked_mul2(pad_y)
    IN  IF pad_x2 = None THEN Err("horizontal padding is too large")
        ELSE IF pad_y2 = None THEN Err("vertical padding is too large")
        ELSE LET new_w == checked_add(d[1], pad_x2[1])
                 new_h == checked_add(d[2], pad_y2[1])
             IN  IF new_w = None THEN Err("resulting width is too large")
                 ELSE IF new_h = None THEN Err("resulting height is too large")
                 ELSE Ok(<<new_w[1], new_h[1]>>)

\* 0.06f32 (line 120)
F32_0_06 == <<16106127, 28>>

\* The f32 product of the natural n (as f32) and the f32 c.
F32MulNat(n, c) == <<RoundTo24(n * c[1]), c[2]>>

\* auto_pad(value, ratio, min, max), value a natural below 2^7.
auto_pad(value, ratio, min, max) ==
    LET scaled == F32Round(F32MulNat(value, ratio))
    IN  clamp_u32(scaled, min, max)

\* resolve_padding taking --pad-x whenever it is given.
resolve_padding_first(a, d) ==
    LET auto == auto_pad(Min(d[1], d[2]), F32_0_06, 48, 320)
    IN  IF a.all # None THEN Ok(<<a.all[1], a.all[1]>>)
        ELSE IF a.pad_x # None THEN Ok(<<a.pad_x[1], a.pad_x[1]>>)
        ELSE IF a.pad_y # None THEN Ok(<<a.pad_y[1], a.pad_y[1]>>)
        ELSE Ok(<<ToU32(auto), ToU32(auto)>>)

\* resolve_padding rejecting only a --pad-x above --pad-y.
resolve_padding_above(a, d) ==
    LET auto == auto_pad(Min(d[1], d[2]), F32_0_06, 48, 320)
        above(p, q) == p[1] > q[1] \/ (p[1] = q[1] /\ p[2] > q[2])
    IN  IF a.all # None THEN Ok(<<a.all[1], a.all[1]>>)
        ELSE IF a.pad_x # None /\ a.pad_y # None
             THEN IF above(a.pad_x[1], a.pad_y[1])
                  THEN Err("pad-x and pad-y must be equal (or use --all/--pad)")
                  ELSE Ok(<<a.pad_x[1], a.pad_x[1]>>)
        ELSE IF a.pad_x # None THEN Ok(<<a.pad_x[1], a.pad_x[1]>>)
        ELSE IF a.pad_y # None THEN Ok(<<a.pad_y[1], a.pad_y[1]>>)
        ELSE Ok(<<ToU32(auto), ToU32(auto)>>)

\* resolve_padding(args, (w, h)), w and h naturals; the result holds u32s.
resolve_padding(a, d) ==
    LET auto == auto_pad(Min(d[1], d[2]), F32_0_06, 48, 320)
    IN  IF a.all # None THEN Ok(<<a.all[1], a.all[1]>>)
        ELSE IF a.pad_x # None /\ a.pad_y # None
             THEN IF a.pad_x[1] # a.pad_y[1]
                  THEN Err("pad-x and pad-y must be equal (or use --all/--pad)")
                  ELSE Ok(<<a.pad_x[1], a.pad_x[1]>>)
        ELSE IF a.pad_x # None THEN Ok(<<a.pad_x[1], a.pad_x[1]>>)
        ELSE IF a.pad_y # None THEN Ok(<<a.pad_y[1], a.pad_y[1]>>)
        ELSE Ok(<<ToU32(auto), ToU32(auto)>>)

(***************************************************************************)
(* The canvas: ImageBuffer::from_pixel and image::imageops::replace.       *)
(***************************************************************************)
\* ImageBuffer::from_pixel(w, h, pixel): every pixel is the given one.
from_pixel(w, h, pixel) ==
    [w |-> w, h |-> h,
     rows |-> [y \in 1..h |-> IF w = 0 THEN <<>> ELSE << <<w, pixel>> >>]]

\* replace with the offset left out: top lands in bottom's corner.
replace_at_origin(bottom, top, x, y) ==
    LET range_width == Max(Min(top.w, bottom.w), 0)
        range_height == Max(Min(top.h, bottom.h), 0)
    IN  ImageOf(bottom.w, bottom.h,
            [yy \in 0..bottom.h - 1 |->
                [xx \in 0..bottom.w - 1 |->
                    IF xx < range_width /\ yy < range_height
                    THEN GetPixel(top, xx, yy)
                    ELSE GetPixel(bottom, xx, yy)]])

\* image::imageops::replace(bottom, top, x, y) for x, y >= 0: the part of top
\* that lies inside bottom is copied over bottom's pixels, pixel by pixel.
replace(bottom, top, x, y) ==
    LET range_width == Max(Min(top.w, bottom.w - x), 0)
        range_height == Max(Min(top.h, bottom.h - y), 0)
        inside(xx, yy) == /\ x <= xx /\ xx < x + range_width
                          /\ y <= yy /\ yy < y + range_height
    IN  ImageOf(bottom.w, bottom.h,
            [yy \in 0..bottom.h - 1 |->
                [xx \in 0..bottom.w - 1 |->
                    IF inside(xx, yy) THEN GetPixel(top, xx - x, yy - y)
                    ELSE GetPixel(bottom, xx, yy)]])

(***************************************************************************)
(* parse_color and parse_hex_byte, on strings of ASCII characters.         *)
(***************************************************************************)
UpperChars == <<"A", "B", "C", "D", "E", "F", "G", "H", "I", "J", "K", "L", "M",
                "N", "O", "P", "Q", "R", "S", "T", "U", "V", "W", "X", "Y", "Z">>
LowerChars == <<"a", "b", "c", "d", "e", "f", "g", "h", "i", "j", "k", "l", "m",
                "n", "o", "p", "q", "r", "s", "t", "u", "v", "w", "x", "y", "z">>
HexChars == <<"0", "1", "2", "3", "4", "5", "6", "7", "8", "9",
              "a", "b", "c", "d", "e", "f">>

\* c.to_ascii_lowercase()
Lower(c) ==
    IF \E i \in 1..Len(UpperChars) : UpperChars[i] = c
    THEN LowerChars[CHOOSE i \in 1..Len(UpperChars) : UpperChars[i] = c]
    ELSE c

\* a.eq_ignore_ascii_case(b)
eq_ignore_ascii_case(a, b) ==
    /\ Len(a) = Len(b)
    /\ \A i \in 1..Len(a) : Lower(a[i]) = Lower(b[i])

\* s.trim(): leading and trailing whitespace removed.
\* char::is_whitespace, among the characters of the model.
Whitespace == {" ", "\t", "\n", "\r"}

RECURSIVE TrimStart(_)
TrimStart(str) ==
    IF str # <<>> /\ str[1] \in Whitespace THEN TrimStart(Tail(str)) ELSE str

RECURSIVE TrimEnd(_)
TrimEnd(str) ==
    IF str # <<>> /\ str[Len(str)] \in Whitespace
    THEN TrimEnd(SubSeq(str, 1, Len(str) - 1)) ELSE str

trim(str) == TrimEnd(TrimStart(str))

\* The value of a hexadecimal digit, -1 for any other character.
HexVal(c) ==
    IF \E i \in 1..Len(HexChars) : HexChars[i] = Lower(c)
    THEN (CHOOSE i \in 1..Len(HexChars) : HexChars[i] = Lower(c)) - 1
    ELSE -1

\* u8::from_str_radix(s, 16) of a two-character s: two digits, or a '+' sign
\* and one digit.
parse_hex_byte(str) ==
    IF str[1] = "+" /\ HexVal(str[2]) >= 0 THEN Ok(HexVal(str[2]))
    ELSE IF HexVal(str[1]) >= 0 /\ HexVal(str[2]) >= 0
         THEN Ok(16 * HexVal(str[1]) + HexVal(str[2]))
         ELSE Err("invalid color component, expected hex")

Str_auto == <<"a", "u", "t", "o">>
Str_transparent == <<"t", "r", "a", "n", "s", "p", "a", "r", "e", "n", "t">>

parse_color(input) ==
    LET trimmed == trim(input)
        hex == IF trimmed # <<>> /\ trimmed[1] = "#" THEN Tail(trimmed)
               ELSE trimmed
    IN  IF eq_ignore_ascii_case(trimmed, Str_transparent) THEN Ok(Clear)
        ELSE IF Len(hex) # 6 /\ Len(hex) # 8
             THEN Err("color must be #RRGGBB, #RRGGBBAA, or 'transparent'")
        ELSE LET r == parse_hex_byte(SubSeq(hex, 1, 2))
                 g == parse_hex_byte(SubSeq(hex, 3, 4))
                 b == parse_hex_byte(SubSeq(hex, 5, 6))
                 a == IF Len(hex) = 8 THEN parse_hex_byte(SubSeq(hex, 7, 8))
                      ELSE Ok(255)
             IN  IF ~r.ok THEN r
                 ELSE IF ~g.ok THEN g
                 ELSE IF ~b.ok THEN b
                 ELSE IF ~a.ok THEN a
                 ELSE Ok(<<r.v, g.v, b.v, a.v>>)

(***************************************************************************)
(* The background estimator: quantize_key, Bucket, dominant_sample,        *)
(* SampleResult and deduce_background.                                     *)
(***************************************************************************)
\* (r >> 3) << 15 | (g >> 3) << 10 | (b >> 3) << 5 | (a >> 3)
quantize_key(pixel) ==
    (pixel[1] \div 8) * 32768 + (pixel[2] \div 8) * 1024
        + (pixel[3] \div 8) * 32 + (pixel[4] \div 8)

\* The band of lines 382 and 385, and the closure |_x, _y| true.
Band(image) == clamp_u32(Min(image.w, image.h) \div 20, 8, 64)

InBorder(image, x, y) ==
    LET band == Band(image)
    IN  \/ x < band \/ x >= Max(image.w - band, 0)
        \/ y < band \/ y >= Max(image.h - band, 0)

Include(image, pass, x, y) ==
    IF pass = "border" THEN InBorder(image, x, y) ELSE TRUE

\* One turn of the inner loop of dominant_sample (lines 454-470) on the
\* accumulators acc = [buckets, total, transparent].
SampleOne(image, pass, acc, x, y) ==
    IF ~Include(image, pass, x, y) THEN acc
    ELSE LET pixel == GetPixel(image, x, y)
             key == quantize_key(pixel)
             old == IF key \in DOMAIN acc.buckets THEN acc.buckets[key]
                    ELSE [count |-> 0, sum_r |-> 0, sum_g |-> 0,
                          sum_b |-> 0, sum_a |-> 0]
             new == [count |-> old.count + 1,
                     sum_r |-> old.sum_r + pixel[1],
                     sum_g |-> old.sum_g + pixel[2],
                     sum_b |-> old.sum_b + pixel[3],
                     sum_a |-> old.sum_a + pixel[4]]
         IN  IF pixel[4] <= 5
             THEN [acc EXCEPT !.total = @ + 1, !.transparent = @ + 1]
             ELSE [acc EXCEPT !.total = @ + 1,
                              !.buckets = (key :> new) @@ acc.buckets]

\* The sampling loops of dominant_sample (lines 448-472): the bucket map and
\* the two counters, before the scan for the best bucket.
SampleImage(image, pass) ==
    LET stride_x == Max(1, image.w \div 200)
        stride_y == Max(1, image.h \div 200)
        \* the number of values of (0..n).step_by(stride)
        Steps(n, stride) == (n + stride - 1) \div stride
        Row(acc, j) ==
            LET At(acc2, i) == SampleOne(image, pass, acc2, i * stride_x, j * stride_y)
            IN  ForRange(At, acc, 0, Steps(image.w, stride_x))
    IN  ForRange(Row, [buckets |-> <<>>, total |-> 0, transparent |-> 0],
                 0, Steps(image.h, stride_y))

\* The scan comparing each count with zero instead of with the best so far.
ScanBucket_latest(sc, key) ==
    LET bucket == sc.buckets[key]
    IN  IF bucket.count > 0
        THEN [sc EXCEPT !.best_count = bucket.count, !.best = Some(bucket),
                        !.todo = @ \ {key}]
        ELSE [sc EXCEPT !.todo = @ \ {key}]

\* One turn of the loop of lines 476-481, on the bucket the map yields next.
ScanBucket(sc, key) ==
    LET bucket == sc.buckets[key]
    IN  IF bucket.count > sc.best_count
        THEN [sc EXCEPT !.best_count = bucket.count, !.best = Some(bucket),
                        !.todo = @ \ {key}]
        ELSE [sc EXCEPT !.todo = @ \ {key}]

\* confidence thresholds 0.2 and 0.1 and the transparent share 0.6, as
\* fractions (lines 388, 392, 398).
border_confidence == <<2, 10>>
overall_confidence == <<1, 10>>
transparent_share == <<6, 10>>

\* color_if_confident taking the ratio over all samples, the near-transparent
\* ones included.
color_if_confident_of_total(sr, threshold) ==
    IF sr.total = 0 THEN None
    ELSE IF sr.best = None THEN None
    ELSE LET bucket == sr.best[1]
         IN  IF bucket.count * threshold[2] < threshold[1] * sr.total
             THEN None
             ELSE Some(<<(bucket.sum_r \div bucket.count) % 256,
                         (bucket.sum_g \div bucket.count) % 256,
                         (bucket.sum_b \div bucket.count) % 256,
                         (bucket.sum_a \div bucket.count) % 256>>)

\* SampleResult::color_if_confident.  ratio < threshold is the f32 test
\* count / non_transparent < threshold: at most 400 * 400 samples are taken,
\* so it is the test on the fractions (see RatioAbove).
color_if_confident(sr, threshold) ==
    LET non_transparent == Max(sr.total - sr.transparent, 0)
    IN  IF non_transparent = 0 THEN None
        ELSE IF sr.best = None THEN None
        ELSE LET bucket == sr.best[1]
             IN  IF bucket.count * threshold[2] < threshold[1] * non_transparent
                 THEN None
                 ELSE Some(<<(bucket.sum_r \div bucket.count) % 256,
                             (bucket.sum_g \div bucket.count) % 256,
                             (bucket.sum_b \div bucket.count) % 256,
                             (bucket.sum_a \div bucket.count) % 256>>)

\* SampleResult::transparent_ratio() >= share
TransparentAtLeast(sr, share) ==
    IF sr.total = 0 THEN share[1] <= share[2]
    ELSE sr.transparent * share[2] >= share[1] * sr.total

(***************************************************************************)
(* main, one action per step.                                              *)
(***************************************************************************)
IsAuto(a) == eq_ignore_ascii_case(trim(a.bg), Str_auto)

\* image::open(input)? and image.to_rgba8() (lines 66-67)
Open ==
    /\ UNCHANGED other_vars
    /\ pc = "start"
    /\ reads' = reads + 1
    /\ stages' = Append(stages, "open")
    /\ IF file = None
       THEN /\ pc' = "error"
            /\ err' = "open"
            /\ rgba' = rgba
       ELSE /\ pc' = "opened"
            /\ err' = err
            /\ rgba' = file
    /\ UNCHANGED <<args, file, bg, sample, border, crop_result, pad, dims,
                   canvas, dest, writes, stderr>>

\* ParseBg with the output file created before the colour is parsed.
ParseBg_created ==
    /\ UNCHANGED other_vars
    /\ pc = "opened"
    /\ ~IsAuto(args)
    /\ stages' = Append(stages, "background")
    /\ dest' = Some([w |-> 0, h |-> 0, rows |-> <<>>])
    /\ LET r == parse_color(args.bg)
       IN  IF r.ok
           THEN /\ bg' = Some(r.v)
                /\ pc' = "bg_done"
                /\ err' = err
           ELSE /\ bg' = bg
                /\ pc' = "error"
                /\ err' = r.e
    /\ UNCHANGED <<args, file, rgba, sample, border, crop_result, pad, dims,
                   canvas, reads, writes, stderr>>

\* parse_color(&args.bg)? (line 71)
ParseBg ==
    /\ UNCHANGED other_vars
    /\ pc = "opened"
    /\ ~IsAuto(args)
    /\ stages' = Append(stages, "background")
    /\ LET r == parse_color(args.bg)
       IN  IF r.ok
           THEN /\ bg' = Some(r.v)
                /\ pc' = "bg_done"
                /\ err' = err
           ELSE /\ bg' = bg
                /\ pc' = "error"
                /\ err' = r.e
    /\ UNCHANGED <<args, file, rgba, sample, border, crop_result, pad, dims,
                   canvas, dest, reads, writes, stderr>>

\* dominant_sample up to its scan of the bucket map (lines 447-475).
StartScan(image, pass) ==
    LET acc == SampleImage(image, pass)
    IN  [buckets |-> acc.buckets, total |-> acc.total,
         transparent |-> acc.transparent, todo |-> DOMAIN acc.buckets,
         best |-> None, best_count |-> 0]

\* The SampleResult dominant_sample returns (lines 483-487).
SampleResult(sc) ==
    [total |-> sc.total, transparent |-> sc.transparent, best |-> sc.best]

\* deduce_background up to the border pass (lines 375-386)
SampleBorder ==
    /\ UNCHANGED other_vars
    /\ pc = "opened"
    /\ IsAuto(args)
    /\ stages' = Append(stages, "background")
    /\ IF rgba[1].w = 0 \/ rgba[1].h = 0
       THEN /\ bg' = Some(Clear)
            /\ pc' = "bg_done"
            /\ sample' = sample
       ELSE /\ bg' = bg
            /\ pc' = "border_scan"
            /\ sample' = Some(StartScan(rgba[1], "border"))
    /\ UNCHANGED <<args, file, rgba, border, crop_result, pad, dims, canvas,
                   dest, reads, writes, stderr, err>>

\* One turn of `for bucket in buckets.values()` (lines 476-481): a HashMap
\* yields its values in an order the program does not control.
Scan ==
    /\ UNCHANGED other_vars
    /\ pc \in {"border_scan", "overall_scan"}
    /\ \E key \in sample[1].todo : sample' = Some(ScanBucket(sample[1], key))
    /\ UNCHANGED <<pc, args, file, rgba, bg, border, crop_result, pad, dims,
                   canvas, dest, reads, writes, stages, stderr, err>>

\* The decision after the border pass with its two tests in the other order.
BorderDecide_transparent_first ==
    /\ UNCHANGED other_vars
    /\ pc = "border_scan"
    /\ sample[1].todo = {}
    /\ LET sr == SampleResult(sample[1])
           color == color_if_confident(sr, border_confidence)
       IN  /\ border' = Some(sr)
           /\ IF TransparentAtLeast(sr, transparent_share)
              THEN /\ bg' = Some(Clear)
                   /\ pc' = "bg_done"
                   /\ sample' = None
              ELSE IF color # None
              THEN /\ bg' = color
                   /\ pc' = "bg_done"
                   /\ sample' = None
              ELSE /\ bg' = bg
                   /\ pc' = "overall_scan"
                   /\ sample' = Some(StartScan(rgba[1], "overall"))
    /\ UNCHANGED <<args, file, rgba, crop_result, pad, dims, canvas, dest,
                   reads, writes, stages, stderr, err>>

\* deduce_background after the border pass (lines 388-396)
BorderDecide ==
    /\ UNCHANGED other_vars
    /\ pc = "border_scan"
    /\ sample[1].todo = {}
    /\ LET sr == SampleResult(sample[1])
           color == color_if_confident(sr, border_confidence)
       IN  /\ border' = Some(sr)
           /\ IF color # None
              THEN /\ bg' = color
                   /\ pc' = "bg_done"
                   /\ sample' = None
              ELSE IF TransparentAtLeast(sr, transparent_share)
              THEN /\ bg' = Some(Clear)
                   /\ pc' = "bg_done"
                   /\ sample' = None
              ELSE /\ bg' = bg
                   /\ pc' = "overall_scan"
                   /\ sample' = Some(StartScan(rgba[1], "overall"))
    /\ UNCHANGED <<args, file, rgba, crop_result, pad, dims, canvas, dest,
                   reads, writes, stages, stderr, err>>

\* deduce_background after the whole-image pass (lines 397-399)
OverallDecide ==
    /\ UNCHANGED other_vars
    /\ pc = "overall_scan"
    /\ sample[1].todo = {}
    /\ LET color == color_if_confident(SampleResult(sample[1]), overall_confidence)
       IN  bg' = IF color # None THEN color ELSE Some(Clear)
    /\ pc' = "bg_done"
    /\ sample' = None
    /\ UNCHANGED <<args, file, rgba, border, crop_result, pad, dims, canvas,
                   dest, reads, writes, stages, stderr, err>>

\* Lines 73-85: the crop stage and its report.
Crop ==
    /\ UNCHANGED other_vars
    /\ pc = "bg_done"
    /\ stages' = Append(stages, "crop")
    /\ crop_result' = Some(IF args.no_crop THEN no_crop(rgba[1], "disabled")
                           ELSE auto_crop_bottom_partial(rgba[1], bg[1]))
    /\ stderr' = IF args.debug_crop
                 THEN Append(stderr, crop_result'[1].report)
                 ELSE stderr
    /\ pc' = "cropped"
    /\ UNCHANGED <<args, file, rgba, bg, sample, border, pad, dims, canvas,
                   dest, reads, writes, err>>

\* resolve_padding(&args, cropped.dimensions())? (line 87)
ResolvePadding ==
    /\ UNCHANGED other_vars
    /\ pc = "cropped"
    /\ stages' = Append(stages, "resolve_padding")
    /\ LET image == crop_result[1].image
           r == resolve_padding(args, <<image.w, image.h>>)
       IN  IF r.ok
           THEN /\ pad' = Some(r.v)
                /\ pc' = "padded"
                /\ err' = err
           ELSE /\ pad' = pad
                /\ pc' = "error"
                /\ err' = r.e
    /\ UNCHANGED <<args, file, rgba, bg, sample, border, crop_result, dims,
                   canvas, dest, reads, writes, stderr>>

\* padded_dimensions(cropped.dimensions(), pad_x, pad_y)? (line 88)
PaddedDimensions ==
    /\ UNCHANGED other_vars
    /\ pc = "padded"
    /\ stages' = Append(stages, "padded_dimensions")
    /\ LET image == crop_result[1].image
           r == padded_dimensions(<<ToU32(image.w), ToU32(image.h)>>,
                                  pad[1][1], pad[1][2])
       IN  IF r.ok
           THEN /\ dims' = Some(r.v)
                /\ pc' = "sized"
                /\ err' = err
           ELSE /\ dims' = dims
                /\ pc' = "error"
                /\ err' = r.e
    /\ UNCHANGED <<args, file, rgba, bg, sample, border, crop_result, pad,
                   canvas, dest, reads, writes, stderr>>

\* A canvas of 2^16 or more pixels a side is beyond what the model holds; for
\* the sizes the inputs lead to (2^32 - 2 and more a side) the buffer length
\* overflows usize and ImageBuffer::from_pixel panics.
Allocatable(d) == d[1][1] = 0 /\ d[2][1] = 0

\* ImageBuffer::from_pixel and image::imageops::replace (lines 89-91)
Compose ==
    /\ UNCHANGED other_vars
    /\ pc = "sized"
    /\ stages' = Append(stages, "canvas")
    /\ IF Allocatable(dims[1])
       THEN /\ canvas' = Some(replace(
                    from_pixel(dims[1][1][2], dims[1][2][2], bg[1]),
                    crop_result[1].image, pad[1][1][2], pad[1][2][2]))
            /\ pc' = "composed"
       ELSE /\ canvas' = canvas
            /\ pc' = "abort"
    /\ UNCHANGED <<args, file, rgba, bg, sample, border, crop_result, pad,
                   dims, dest, reads, writes, stderr, err>>

\* DynamicImage::ImageRgba8(canvas).save(&output)? succeeding (lines 93-95)
Save ==
    /\ UNCHANGED other_vars
    /\ pc = "composed"
    /\ stages' = Append(stages, "save")
    /\ writes' = writes + 1
    /\ dest' = canvas
    /\ pc' = "done"
    /\ UNCHANGED <<args, file, rgba, bg, sample, border, crop_result, pad,
                   dims, canvas, reads, stderr, err>>

\* What a failed save may leave: the file created and nothing encoded.
Truncated == [w |-> 0, h |-> 0, rows |-> <<>>]

\* DynamicImage::ImageRgba8(canvas).save(&output)? failing (line 93): the
\* destination is as it was, or was created and is incomplete.
SaveFail ==
    /\ UNCHANGED other_vars
    /\ pc = "composed"
    /\ stages' = Append(stages, "save")
    /\ writes' = writes + 1
    /\ dest' \in {dest, Some(Truncated)}
    /\ pc' = "error"
    /\ err' = "save"
    /\ UNCHANGED <<args, file, rgba, bg, sample, border, crop_result, pad,
                   dims, canvas, reads, stderr>>

(***************************************************************************)
(* The spawn tool (src/spawn/src/main.rs): its pure functions.             *)
(***************************************************************************)
\* s starts with p.
StartsWith(str, p) ==
    Len(str) >= Len(p) /\ SubSeq(str, 1, Len(p)) = p

\* s.contains(p)
Contains(str, p) ==
    \E i \in 1..Len(str) - Len(p) + 1 : SubSeq(str, i, i + Len(p) - 1) = p

\* s.replace(p, w) for a non-empty p: the matches are taken from the left.
RECURSIVE Replace(_, _, _)
Replace(str, p, w) ==
    IF str = <<>> THEN <<>>
    ELSE IF StartsWith(str, p)
         THEN w \o Replace(SubSeq(str, Len(p) + 1, Len(str)), p, w)
         ELSE <<str[1]>> \o Replace(Tail(str), p, w)

\* parts.join(sep)
RECURSIVE Join(_, _)
Join(parts, sep) ==
    IF parts = <<>> THEN <<>>
    ELSE IF Len(parts) = 1 THEN parts[1]
    ELSE parts[1] \o sep \o Join(Tail(parts), sep)

\* s.lines(), and the lines of BufRead::lines: a line ends at "\n", which is
\* dropped together with a "\r" right before it; the last line needs no end.
RECURSIVE Lines(_)
Lines(str) ==
    IF str = <<>> THEN <<>>
    ELSE IF \E i \in 1..Len(str) : str[i] = "\n"
         THEN LET i == CHOOSE k \in 1..Len(str) :
                           str[k] = "\n" /\ \A j \in 1..k - 1 : str[j] # "\n"
                  last == IF i > 1 /\ str[i - 1] = "\r" THEN i - 2 ELSE i - 1
              IN  <<SubSeq(str, 1, last)>> \o Lines(SubSeq(str, i + 1, Len(str)))
         ELSE <<str>>

\* The number of whitespace characters the string begins with.
Indent(str) == Len(str) - Len(TrimStart(str))

\* The regex ^(\s*)([-*+])\s+\[\s*\]\s*(.*)$ of line 124: <<indent>> when the
\* line matches, <<>> when it does not.
UncheckedTodo(line) ==
    LET a == TrimStart(line)
        b == IF a = <<>> THEN <<>> ELSE Tail(a)
        c == TrimStart(b)
        d == IF c = <<>> THEN <<>> ELSE TrimStart(Tail(c))
    IN  IF /\ a # <<>> /\ a[1] \in {"-", "*", "+"}
           /\ Len(c) < Len(b)
           /\ c # <<>> /\ c[1] = "["
           /\ d # <<>> /\ d[1] = "]"
        THEN Some(Indent(line))
        ELSE None

\* The inner loop of extract_unchecked_todos (lines 136-151): the index after
\* the block that begins before j.
RECURSIVE BlockEnd(_, _, _)
BlockEnd(lines, indent, j) ==
    IF j > Len(lines) THEN j
    ELSE IF trim(lines[j]) = <<>> \/ Indent(lines[j]) > indent
         THEN BlockEnd(lines, indent, j + 1)
         ELSE j

\* extract_unchecked_todos from line i (1-based) on.
RECURSIVE TodosFrom(_, _)
TodosFrom(lines, i) ==
    IF i > Len(lines) THEN <<>>
    ELSE LET caps == UncheckedTodo(lines[i])
         IN  IF caps # None
             THEN LET j == BlockEnd(lines, caps[1], i + 1)
                  IN  <<Join(SubSeq(lines, i, j - 1), <<"\n">>)>>
                          \o TodosFrom(lines, j)
             ELSE TodosFrom(lines, i + 1)

extract_unchecked_todos(content) == TodosFrom(Lines(content), 1)

\* build_prompt(item, prefix, suffix), prefix and suffix Options.
build_prompt(item, prefix, suffix) ==
    LET p == IF prefix # None /\ trim(prefix[1]) # <<>>
             THEN <<TrimEnd(prefix[1])>> ELSE <<>>
        q == IF suffix # None /\ trim(suffix[1]) # <<>>
             THEN <<TrimStart(suffix[1])>> ELSE <<>>
    IN  Join(p \o <<TrimEnd(item)>> \o q, <<"\n", "\n">>)

\* ITEM_TOKENS[0] (line 317)
ItemToken == <<"{", "i", "t", "e", "m", "}">>

contains_item_token(cmd) ==
    \E i \in 1..Len(cmd) : Contains(cmd[i], ItemToken)

replace_item_token(arg, prompt) == Replace(arg, ItemToken, prompt)

\* The characters of line 236.
DoubleQuote == "\""
Backslash == "\\"
\* The grave accent U+0060, under a name: the character itself would open a
\* quotation that the next apostrophe of the module closes.
Backtick == "U+0060"
ShellSpecial ==
    {" ", "\t", "\n", "\r", "'", DoubleQuote, Backslash, "$", Backtick,
     "!", "(", ")"}

shell_escape(input) ==
    IF input = <<>> THEN <<"'", "'">>
    ELSE IF \A i \in 1..Len(input) : input[i] \notin ShellSpecial THEN input
    ELSE <<"'">> \o Replace(input, <<"'">>, <<"'", DoubleQuote, "'", DoubleQuote, "'">>)
             \o <<"'">>

build_shell_command(cmd, prompt) ==
    IF ~contains_item_token(cmd)
    THEN Err("harness command must include {item}")
    ELSE Ok(Join([i \in 1..Len(cmd) |->
                     shell_escape(replace_item_token(cmd[i], prompt))],
                 <<" ">>))

\* shell_words::split on a string of whitespace, single quotes and plain
\* characters: the state is [words, word, open (a word has begun), quoted].
ShellSplitStep(str, st, i) ==
    LET c == str[i + 1]
    IN  IF st.quoted
        THEN IF c = "'" THEN [st EXCEPT !.quoted = FALSE]
             ELSE [st EXCEPT !.word = Append(@, c)]
        ELSE IF c = "'" THEN [st EXCEPT !.quoted = TRUE, !.open = TRUE]
        ELSE IF c \in Whitespace
             THEN IF st.open
                  THEN [st EXCEPT !.words = Append(@, st.word),
                                  !.word = <<>>, !.open = FALSE]
                  ELSE st
        ELSE [st EXCEPT !.word = Append(@, c), !.open = TRUE]

shell_split(str) ==
    LET Step(st, i) == ShellSplitStep(str, st, i)
        end == ForRange(Step, [words |-> <<>>, word |-> <<>>, open |-> FALSE,
                               quoted |-> FALSE], 0, Len(str))
    IN  IF end.quoted THEN Err("missing closing quote")
        ELSE Ok(IF end.open THEN Append(end.words, end.word) ELSE end.words)

\* normalize_harness_cmd(raw)
normalize_harness_cmd(raw) ==
    IF raw = <<>> THEN Err("harness command is empty")
    ELSE IF Len(raw) = 1
            /\ \E i \in 1..Len(trim(raw[1])) : trim(raw[1])[i] \in Whitespace
         THEN LET parsed == shell_split(trim(raw[1]))
              IN  IF ~parsed.ok
                  THEN Err("failed to parse harness command string")
                  ELSE IF parsed.v = <<>> THEN Err("harness command is empty")
                  ELSE parsed
         ELSE Ok(raw)

\* line.trim().parse::<u32>() of line 341, for numbers of the model's size:
\* <<n>>, or <<>> when the line is not a number.
Digits == <<"0", "1", "2", "3", "4", "5", "6", "7", "8", "9">>

RECURSIVE DigitsValue(_)
DigitsValue(str) ==
    IF str = <<>> THEN 0
    ELSE 10 * DigitsValue(SubSeq(str, 1, Len(str) - 1))
            + (CHOOSE d \in 0..9 : Digits[d + 1] = str[Len(str)])

ParseU32(line) ==
    LET t == trim(line)
        body == IF t # <<>> /\ t[1] = "+" THEN Tail(t) ELSE t
    IN  IF body # <<>>
           /\ \A i \in 1..Len(body) : \E d \in 1..10 : Digits[d] = body[i]
        THEN Some(DigitsValue(body))
        ELSE None

\* The loop of tmux_next_window_index (lines 339-345) over the lines of the
\* output of list-windows.
next_window_index(lines) ==
    LET nums == {ParseU32(lines[i])[1] :
                    i \in {k \in 1..Len(lines) : ParseU32(lines[k]) # None}}
    IN  IF nums = {} THEN 1
        ELSE (CHOOSE n \in nums : \A m \in nums : m <= n) + 1

\* An answer is taken for a yes as soon as it begins with a y.
Accepts_prefix(input) ==
    trim(input) = <<>> \/ Lower(trim(input)[1]) = "y"

\* The answer of confirm_spawn (lines 278-279).
Accepts(input) ==
    LET answer == [i \in 1..Len(trim(input)) |-> Lower(trim(input)[i])]
    IN  answer \in {<<>>, <<"y">>, <<"y", "e", "s">>}

\* The preview of a prompt that print_prompt_previews prints (lines 286-296).
Preview(prompt) ==
    LET ls == Lines(prompt)
        first == IF ls = <<>> THEN <<>> ELSE TrimEnd(ls[1])
        more == IF Len(ls) >= 2 /\ trim(ls[2]) # <<>> THEN <<" ", "...">> ELSE <<>>
    IN  IF first \o more = <<>> THEN <<"<empty>">> ELSE first \o more

(***************************************************************************)
(* The spawn tool: main and spawn_tmux, one action per step.  A tmux       *)
(* command is an entry of tmux_log; what the tmux binary answers is not    *)
(* the program's to choose: "ok" (exit status 0), "fail" (another status)  *)
(* or "norun" (the binary could not be started).                           *)
(***************************************************************************)
Outcomes == {"ok", "fail", "norun"}

\* The program runs the tmux command, which ends with the status r.
Ran(command, r) == tmux_log' = Append(tmux_log, command @@ [status |-> r])

\* The error of run_tmux (lines 353-359) for an outcome other than "ok".
TmuxError(r) ==
    IF r = "norun" THEN "failed to run tmux" ELSE "tmux command failed"

NoTmux ==
    [created_session |-> FALSE, used_existing_session |-> FALSE,
     start_index |-> 0, idx |-> 0, step |-> "none"]

\* Lines 68-79: read the file, extract the todos, build the prompts.
SpawnRead ==
    /\ s_pc = "start"
    /\ IF todo_file = None
       THEN /\ s_err' = "failed to read"
            /\ s_pc' = "error"
            /\ prompts' = prompts
       ELSE LET items == extract_unchecked_todos(todo_file[1])
            IN  IF items = <<>>
                THEN /\ s_err' = "no unchecked todos found"
                     /\ s_pc' = "error"
                     /\ prompts' = prompts
                ELSE /\ prompts' = [i \in 1..Len(items) |->
                                       build_prompt(items[i], cli.prefix, cli.suffix)]
                     /\ s_pc' = "prompts"
                     /\ s_err' = s_err
    /\ UNCHANGED <<cli, todo_file, stdin, harness, tmux, tmux_log, s_out>>
    /\ UNCHANGED <<padify_vars, rmdbg_vars>>

\* Lines 81-86: --dry-run prints the prompts and returns.
SpawnDryRun ==
    /\ s_pc = "prompts"
    /\ cli.dry_run
    /\ s_out' = s_out \o [i \in 1..Len(prompts) |-> <<"prompt", i, prompts[i]>>]
    /\ s_pc' = "done"
    /\ UNCHANGED <<cli, todo_file, stdin, prompts, harness, tmux, tmux_log, s_err>>
    /\ UNCHANGED <<padify_vars, rmdbg_vars>>

\* Lines 88-93: normalize the harness command; --yes skips the confirmation.
SpawnNormalize ==
    /\ s_pc = "prompts"
    /\ ~cli.dry_run
    /\ LET r == normalize_harness_cmd(cli.harness_cmd)
       IN  IF r.ok
           THEN /\ harness' = Some(r.v)
                /\ s_pc' = IF cli.yes THEN "spawn" ELSE "confirm"
                /\ s_err' = s_err
           ELSE /\ harness' = harness
                /\ s_pc' = "error"
                /\ s_err' = r.e
    /\ UNCHANGED <<cli, todo_file, stdin, prompts, tmux, tmux_log, s_out>>
    /\ UNCHANGED <<padify_vars, rmdbg_vars>>

\* What confirm_spawn prints before it reads the answer (lines 264-272).
ConfirmText ==
    [kind |-> "confirm",
     replace |-> cli.replace,
     windows |-> Len(prompts),
     harness |-> Join(harness[1], <<" ">>),
     previews |-> [i \in 1..Min(5, Len(prompts)) |-> Preview(prompts[i])],
     more |-> Max(Len(prompts) - 5, 0)]

\* Lines 94-97 and confirm_spawn (lines 263-280).
SpawnConfirm ==
    /\ s_pc = "confirm"
    /\ IF stdin = None
       THEN /\ s_out' = Append(s_out, ConfirmText)
            /\ s_err' = "failed to read confirmation input"
            /\ s_pc' = "error"
       ELSE IF Accepts(stdin[1])
       THEN /\ s_out' = Append(s_out, ConfirmText)
            /\ s_err' = s_err
            /\ s_pc' = "spawn"
       ELSE /\ s_out' = s_out \o <<ConfirmText, "aborted.">>
            /\ s_err' = s_err
            /\ s_pc' = "done"
    /\ UNCHANGED <<cli, todo_file, stdin, prompts, harness, tmux, tmux_log>>
    /\ UNCHANGED <<padify_vars, rmdbg_vars>>

\* tmux_has_session (line 185, lines 319-328)
TmuxHasSession ==
    /\ s_pc = "spawn"
    /\ \E r \in Outcomes :
          /\ Ran([cmd |-> "has-session"], r)
          /\ IF r = "norun"
             THEN s_pc' = "error" /\ s_err' = TmuxError(r)
             ELSE s_pc' = (IF r = "ok" THEN "exists" ELSE "absent") /\ s_err' = s_err
    /\ UNCHANGED <<cli, todo_file, stdin, prompts, harness, tmux, s_out>>
    /\ UNCHANGED <<padify_vars, rmdbg_vars>>

\* Lines 186-187: the session exists and --replace was given.
TmuxKillSession ==
    /\ s_pc = "exists"
    /\ cli.replace
    /\ \E r \in Outcomes :
          /\ Ran([cmd |-> "kill-session"], r)
          /\ IF r = "ok"
             THEN s_pc' = "killed" /\ s_err' = s_err
             ELSE s_pc' = "error" /\ s_err' = TmuxError(r)
    /\ UNCHANGED <<cli, todo_file, stdin, prompts, harness, tmux, s_out>>
    /\ UNCHANGED <<padify_vars, rmdbg_vars>>

\* Lines 188-190 and 196-198: new-session with its first window.
TmuxNewSession ==
    /\ s_pc \in {"killed", "absent"}
    /\ \E r \in Outcomes :
          /\ Ran([cmd |-> "new-session"], r)
          /\ IF r = "ok"
             THEN /\ tmux' = [created_session |-> TRUE,
                              used_existing_session |-> FALSE,
                              start_index |-> 1, idx |-> 0, step |-> "window"]
                  /\ s_pc' = "loop"
                  /\ s_err' = s_err
             ELSE /\ tmux' = tmux
                  /\ s_pc' = "error"
                  /\ s_err' = TmuxError(r)
    /\ UNCHANGED <<cli, todo_file, stdin, prompts, harness, s_out>>
    /\ UNCHANGED <<padify_vars, rmdbg_vars>>

\* What list-windows may print: window indices, and lines that are none.
WindowLists ==
    {<<>>, << <<"1">> >>, << <<"2">>, <<"x">>, <<" ", "1">> >>}

\* Lines 192-193: the session exists and is kept; tmux_next_window_index.
TmuxListWindows ==
    /\ s_pc = "exists"
    /\ ~cli.replace
    /\ \/ \E r \in Outcomes \ {"ok"} :
             /\ Ran([cmd |-> "list-windows"], r)
             /\ tmux' = tmux
             /\ s_pc' = "error"
             /\ s_err' = TmuxError(r)
       \/ \E out \in WindowLists :
             /\ Ran([cmd |-> "list-windows"], "ok")
             /\ tmux' = [created_session |-> FALSE,
                         used_existing_session |-> TRUE,
                         start_index |-> next_window_index(out),
                         idx |-> 0, step |-> "window"]
             /\ s_pc' = "loop"
             /\ s_err' = s_err
    /\ UNCHANGED <<cli, todo_file, stdin, prompts, harness, s_out>>
    /\ UNCHANGED <<padify_vars, rmdbg_vars>>

\* Lines 202-208: the window of prompt idx; the first prompt of a session
\* that was just created uses the window the session came with.
TmuxNewWindow ==
    /\ s_pc = "loop"
    /\ tmux.idx < Len(prompts)
    /\ tmux.step = "window"
    /\ IF tmux.created_session /\ tmux.idx = 0
       THEN /\ tmux' = [tmux EXCEPT !.step = "keys"]
            /\ UNCHANGED <<tmux_log, s_pc, s_err>>
       ELSE \E r \in Outcomes :
               /\ Ran([cmd |-> "new-window",
                       window |-> tmux.start_index + tmux.idx], r)
               /\ IF r = "ok"
                  THEN /\ tmux' = [tmux EXCEPT !.step = "keys"]
                       /\ UNCHANGED <<s_pc, s_err>>
                  ELSE /\ tmux' = tmux
                       /\ s_pc' = "error"
                       /\ s_err' = TmuxError(r)
    /\ UNCHANGED <<cli, todo_file, stdin, prompts, harness, s_out>>
    /\ UNCHANGED <<padify_vars, rmdbg_vars>>

\* Lines 210-212: build the shell command and type it.
TmuxSendLiteral ==
    /\ s_pc = "loop"
    /\ tmux.idx < Len(prompts)
    /\ tmux.step = "keys"
    /\ LET cmd == build_shell_command(harness[1], prompts[tmux.idx + 1])
       IN  IF ~cmd.ok
           THEN /\ s_pc' = "error"
                /\ s_err' = cmd.e
                /\ UNCHANGED <<tmux, tmux_log>>
           ELSE \E r \in Outcomes :
                   /\ Ran([cmd |-> "send-keys",
                           window |-> tmux.start_index + tmux.idx,
                           keys |-> cmd.v], r)
                   /\ IF r = "ok"
                      THEN /\ tmux' = [tmux EXCEPT !.step = "enter"]
                           /\ UNCHANGED <<s_pc, s_err>>
                      ELSE /\ tmux' = tmux
                           /\ s_pc' = "error"
                           /\ s_err' = TmuxError(r)
    /\ UNCHANGED <<cli, todo_file, stdin, prompts, harness, s_out>>
    /\ UNCHANGED <<padify_vars, rmdbg_vars>>

\* Line 213: press Enter in the window, and go to the next prompt.
TmuxSendEnter ==
    /\ s_pc = "loop"
    /\ tmux.idx < Len(prompts)
    /\ tmux.step = "enter"
    /\ \E r \in Outcomes :
          /\ Ran([cmd |-> "send-keys",
                  window |-> tmux.start_index + tmux.idx,
                  keys |-> <<"C-m">>], r)
          /\ IF r = "ok"
             THEN /\ tmux' = [tmux EXCEPT !.idx = @ + 1, !.step = "window"]
                  /\ UNCHANGED <<s_pc, s_err>>
             ELSE /\ tmux' = tmux
                  /\ s_pc' = "error"
                  /\ s_err' = TmuxError(r)
    /\ UNCHANGED <<cli, todo_file, stdin, prompts, harness, s_out>>
    /\ UNCHANGED <<padify_vars, rmdbg_vars>>

\* Lines 99-120: spawn_tmux has returned; attach, or say what was done.
SpawnFinish ==
    /\ s_pc = "loop"
    /\ tmux.idx = Len(prompts)
    /\ IF cli.attach
       THEN /\ s_out' = s_out
            /\ \E r \in Outcomes :
                  /\ Ran([cmd |-> "attach"], r)
                  /\ IF r = "ok"
                     THEN s_pc' = "done" /\ s_err' = s_err
                     ELSE s_pc' = "error" /\ s_err' = TmuxError(r)
       ELSE /\ s_out' = s_out \o
                    <<[kind |-> IF tmux.used_existing_session
                                THEN "already existed" ELSE "created",
                       windows |-> Len(prompts)],
                      "attach with">>
            /\ s_pc' = "done"
            /\ UNCHANGED <<tmux_log, s_err>>
    /\ UNCHANGED <<cli, todo_file, stdin, prompts, harness, tmux>>
    /\ UNCHANGED <<padify_vars, rmdbg_vars>>

(***************************************************************************)
(* The rmdbg tool (src/rmdbg/src/main.rs): process_file on one file.       *)
(***************************************************************************)
Str_import == <<"i", "m", "p", "o", "r", "t">>
Str_pdb == <<"p", "d", "b">>
Str_ipdb == <<"i", "p", "d", "b">>
Str_set_trace == <<".", "s", "e", "t", "_", "t", "r", "a", "c", "e", "(", ")">>

\* str after its first n characters.
Drop(str, n) == SubSeq(str, n + 1, Len(str))

\* The alternation (pdb|ipdb) at the start of str: <<module>>, or <<>>.
ModuleAt(str) ==
    IF StartsWith(str, Str_pdb) THEN Some(Str_pdb)
    ELSE IF StartsWith(str, Str_ipdb) THEN Some(Str_ipdb)
    ELSE None

\* re_set_trace (line 29): ^\s*(pdb|ipdb)\.set_trace\(\)\s*$
re_set_trace(line) ==
    LET t == trim(line)
        m == ModuleAt(t)
    IN  m # None /\ Drop(t, Len(m[1])) = Str_set_trace

\* What follows "import" and whitespace in the line: <<rest>>, or <<>> when
\* the line does not begin (after whitespace) with import and whitespace.
AfterImport(line) ==
    LET t == trim(line)
        rest == Drop(t, Len(Str_import))
    IN  IF StartsWith(t, Str_import) /\ rest # <<>> /\ rest[1] \in Whitespace
        THEN Some(TrimStart(rest))
        ELSE None

\* re_import (line 26): ^(\s*)import\s+(pdb|ipdb)\s*$, with its captures
\* <<[indent, module_name]>>, or <<>> when the line does not match.
re_import(line) ==
    LET rest == AfterImport(line)
    IN  IF rest # None /\ rest[1] \in {Str_pdb, Str_ipdb}
        THEN Some([indent |-> SubSeq(line, 1, Indent(line)), module_name |-> rest[1]])
        ELSE None

\* re_single_line (lines 32-33):
\* ^\s*import\s+(pdb|ipdb);\s*(pdb|ipdb)\.set_trace\(\)\s*$
re_single_line(line) ==
    LET rest == AfterImport(line)
        m == IF rest = None THEN None ELSE ModuleAt(rest[1])
        tail == IF m = None THEN <<>> ELSE Drop(rest[1], Len(m[1]))
    IN  /\ m # None
        /\ tail # <<>>
        /\ tail[1] = ";"
        /\ re_set_trace(Tail(tail))

\* The loop of lines 63-66: the index (from 0) of the first line from i on
\* that is not whitespace only, or the number of lines.
RECURSIVE SkipBlank(_, _)
SkipBlank(lines, i) ==
    IF i < Len(lines) /\ trim(lines[i + 1]) = <<>>
    THEN SkipBlank(lines, i + 1)
    ELSE i

\* The test of lines 69-73 at line i for what re_import captured, with either
\* module in the call.
ExpectedNext_any_module(lines, i, caps) ==
    /\ i < Len(lines)
    /\ \E m \in {Str_pdb, Str_ipdb} :
          trim(lines[i + 1]) = trim(caps.indent \o m \o Str_set_trace)

\* The test of lines 69-73 at line i for what re_import captured.
ExpectedNext(lines, i, caps) ==
    /\ i < Len(lines)
    /\ trim(lines[i + 1]) = trim(caps.indent \o caps.module_name \o Str_set_trace)

\* The write_all calls of lines 82-85 and 89-90 for the lines.
WriteCalls(lines) ==
    [k \in 1..2 * Len(lines) |-> IF k % 2 = 1 THEN lines[(k + 1) \div 2] ELSE <<"\n">>]

\* The capacity of the BufWriter of line 19 (8192 bytes in the program).
BufCapacity == 16

\* A write of data to the file itself: all of it, or an error after none or
\* half of it.  <<written, ok>>
InnerWrites(data) ==
    {<<data, TRUE>>, <<<<>>, FALSE>>, <<SubSeq(data, 1, Len(data) \div 2), FALSE>>}

\* BufWriter::flush_buf: [buf, out (what reached the file), ok].
flush_buf(buf) ==
    IF buf = <<>> THEN {[buf |-> <<>>, out |-> <<>>, ok |-> TRUE]}
    ELSE {[buf |-> Drop(buf, Len(w[1])), out |-> w[1], ok |-> w[2]] :
             w \in InnerWrites(buf)}

\* BufWriter::write_all(data) on the buffer buf: the data goes to the buffer
\* when it fits; else the buffer is flushed when the data is more than its
\* spare capacity, and data of the capacity or more goes to the file itself.
write_all(buf, data) ==
    IF Len(data) < BufCapacity - Len(buf)
    THEN {[buf |-> buf \o data, out |-> <<>>, ok |-> TRUE]}
    ELSE LET flushed == IF Len(data) > BufCapacity - Len(buf) THEN flush_buf(buf)
                        ELSE {[buf |-> buf, out |-> <<>>, ok |-> TRUE]}
         IN  UNION {IF ~f.ok THEN {f}
                    ELSE IF Len(data) >= BufCapacity
                    THEN {[buf |-> f.buf, out |-> f.out \o w[1], ok |-> w[2]] :
                             w \in InnerWrites(data)}
                    ELSE {[buf |-> f.buf \o data, out |-> f.out, ok |-> TRUE]} :
                    f \in flushed}

\* Lines 11-37: the metadata, the two files, the permissions, the lines.
\* The temp file exists, empty, once File::create has succeeded.
RmdbgOpen ==
    /\ r_pc = "start"
    /\ \E r \in {"ok", "metadata", "open", "create", "set_permissions", "lines"} :
          IF r = "ok"
          THEN /\ temp_path' = Some(<<>>)
               /\ writer' = [buf |-> <<>>, at |-> "temp", failed |-> FALSE]
               /\ r_lines' = Lines(path)
               /\ r_pc' = "scan"
               /\ r_err' = r_err
          ELSE /\ temp_path' = IF r \in {"set_permissions", "lines"}
                               THEN Some(<<>>) ELSE temp_path
               /\ r_err' = r
               /\ r_pc' = "done"
               /\ UNCHANGED <<writer, r_lines>>
    /\ UNCHANGED <<path, original, r_i, buffer, pending>>
    /\ UNCHANGED <<padify_vars, spawn_vars>>

\* One turn of the loop of lines 40-93, up to its writes.
RmdbgScan ==
    /\ r_pc = "scan"
    /\ r_i < Len(r_lines)
    /\ LET line == r_lines[r_i + 1]
           caps == re_import(line)
       IN  IF re_single_line(line) \/ re_set_trace(line)
           THEN /\ r_i' = r_i + 1
                /\ UNCHANGED <<buffer, pending, r_pc>>
           ELSE IF caps # None
           THEN LET next == SkipBlank(r_lines, r_i + 1)
                IN  IF ExpectedNext(r_lines, next, caps[1])
                    THEN /\ r_i' = next + 1
                         /\ UNCHANGED <<buffer, pending, r_pc>>
                    ELSE /\ r_i' = next
                         /\ buffer' = SubSeq(r_lines, r_i + 1, next)
                         /\ pending' = WriteCalls(buffer')
                         /\ r_pc' = "write"
           ELSE /\ pending' = WriteCalls(<<line>>)
                /\ r_pc' = "write"
                /\ UNCHANGED <<r_i, buffer>>
    /\ UNCHANGED <<path, temp_path, original, r_lines, writer, r_err>>
    /\ UNCHANGED <<padify_vars, spawn_vars>>

\* The file of the writer receives out.
FileReceives(out) ==
    IF writer.at = "temp"
    THEN temp_path' = Some(temp_path[1] \o out) /\ path' = path
    ELSE path' = path \o out /\ temp_path' = temp_path

\* The next write_all of the turn (lines 83-84 and 89-90); after the last
\* one, buffer.clear() of line 86 or i += 1 of line 91.  An error is
\* returned at once.
RmdbgWrite ==
    /\ r_pc = "write"
    /\ \E o \in write_all(writer.buf, Head(pending)) :
          /\ FileReceives(o.out)
          /\ writer' = [writer EXCEPT !.buf = o.buf, !.failed = @ \/ ~o.ok]
          /\ IF ~o.ok
             THEN /\ r_err' = "write"
                  /\ r_pc' = "drop"
                  /\ UNCHANGED <<pending, buffer, r_i>>
             ELSE /\ pending' = Tail(pending)
                  /\ r_err' = r_err
                  /\ IF Tail(pending) = <<>>
                     THEN /\ r_pc' = "scan"
                          /\ buffer' = <<>>
                          /\ r_i' = IF buffer = <<>> THEN r_i + 1 ELSE r_i
                     ELSE UNCHANGED <<r_pc, buffer, r_i>>
    /\ UNCHANGED <<original, r_lines>>
    /\ UNCHANGED <<padify_vars, spawn_vars>>

\* fs::rename(&temp_path, &path) of line 96, after the loop.
RmdbgRename ==
    /\ r_pc = "scan"
    /\ r_i >= Len(r_lines)
    /\ \/ /\ path' = temp_path[1]
          /\ temp_path' = None
          /\ writer' = [writer EXCEPT !.at = "path"]
          /\ r_err' = r_err
       \/ /\ r_err' = "rename"
          /\ UNCHANGED <<path, temp_path, writer>>
    /\ r_pc' = "drop"
    /\ UNCHANGED <<original, r_lines, r_i, buffer, pending>>
    /\ UNCHANGED <<padify_vars, spawn_vars>>

\* process_file returns (line 98, or an error of line 83-96) and the writer
\* goes out of scope: BufWriter's drop flushes the buffer into its file and
\* ignores the outcome.
RmdbgDrop ==
    /\ r_pc = "drop"
    /\ \E o \in flush_buf(writer.buf) :
          /\ FileReceives(o.out)
          /\ writer' = [writer EXCEPT !.buf = o.buf, !.failed = @ \/ ~o.ok]
    /\ r_pc' = "done"
    /\ UNCHANGED <<original, r_lines, r_i, buffer, pending, r_err>>
    /\ UNCHANGED <<padify_vars, spawn_vars>>

(***************************************************************************)
(* The inputs: images, command lines, and the initial states.              *)
(***************************************************************************)
RowKinds == {"blank", "faint", "solid"}

\* A row of width w >= 2: blank is background within the tolerance of white,
\* faint has one pixel just beyond it, solid is black.
KindRow(w, kind) ==
    IF kind = "blank" THEN << <<1, NearWhite>>, <<w - 1, White>> >>
    ELSE IF kind = "faint" THEN << <<w - 1, White>>, <<1, OffWhite>> >>
    ELSE << <<w, Black>> >>

KindImage(w, kinds) ==
    [w |-> w, h |-> Len(kinds), rows |-> [i \in 1..Len(kinds) |-> KindRow(w, kinds[i])]]

KindImages(w, maxh) ==
    {KindImage(w, kinds) : kinds \in UNION {[1..h -> RowKinds] : h \in 1..maxh}}

\* The kinds of the rows of an image given by its runs <<kind, count>>.
RECURSIVE KindRuns(_)
KindRuns(runs) ==
    IF runs = <<>> THEN <<>>
    ELSE [i \in 1..runs[1][2] |-> runs[1][1]] \o KindRuns(Tail(runs))

\* Images at the edges of the two rules: a short last line with a speck under
\* it; a last line of 0.7 and of 0.6 of the line above, and one with three
\* rows under it; a short last line with a faint block right under it; under a line of 10, 20 and 25 rows, a gap and a faint
\* block about 0.35 and 0.6 of the line tall.
RuleRuns ==
    {<< <<"solid", 4>>, <<"blank", 1>>, <<"solid", 1>>, <<"blank", 1>>, <<"faint", 1>> >>,
     << <<"solid", 10>>, <<"blank", 1>>, <<"solid", 7>> >>,
     << <<"solid", 10>>, <<"blank", 1>>, <<"solid", 6>> >>,
     << <<"solid", 10>>, <<"blank", 1>>, <<"solid", 6>>, <<"blank", 3>> >>,
     << <<"solid", 10>>, <<"blank", 1>>, <<"solid", 6>>, <<"faint", 2>> >>,
     << <<"solid", 10>>, <<"blank", 1>>, <<"solid", 2>>, <<"faint", 3>> >>}
    \cup {<< <<"solid", 10>>, <<"blank", g>>, <<"faint", b>> >> :
             g \in 1..2, b \in 3..6}
    \cup {<< <<"solid", 20>>, <<"blank", g>>, <<"faint", b>> >> :
             g \in 3..4, b \in 11..12}
    \cup {<< <<"solid", 25>>, <<"blank", g>>, <<"faint", b>> >> :
             g \in 4..5, b \in 14..16}

RuleImages == {KindImage(CropWidth, KindRuns(r)) : r \in RuleRuns}

\* White, w wide and h tall, with black rows [20, 60] and [120, 130].
ScenarioImage(w, h) ==
    [w |-> w, h |-> h,
     rows |-> [i \in 1..h |->
                 IF (20 <= i - 1 /\ i - 1 <= 60) \/ (120 <= i - 1 /\ i - 1 <= 130)
                 THEN << <<w, Black>> >> ELSE << <<w, White>> >>]]

ScenarioHeights == {131, 132, 133, 134, 136, 200}

Red == <<255, 0, 0, 255>>
Green == <<0, 255, 0, 255>>
Blue == <<0, 0, 255, 255>>
Grey == <<128, 128, 128, 255>>
\* Two colours of one bucket, and two near-transparent pixels.
Tan == <<200, 100, 50, 255>>
Tan2 == <<207, 103, 55, 255>>
Faded == <<9, 9, 9, 5>>
Palette6 == <<Red, Green, Blue, Black, White, Grey>>

\* One row of six colours in turn: no bucket holds 0.2 of it.
Rainbow ==
    ImageOf(CropWidth, 1, [y \in {0} |-> [x \in 0..CropWidth - 1 |-> Palette6[(x % 6) + 1]]])

\* Images of zero width or height.
Degenerate ==
    {[w |-> 0, h |-> 2, rows |-> << <<>>, <<>> >>],
     [w |-> 2, h |-> 0, rows |-> <<>>],
     [w |-> 0, h |-> 0, rows |-> <<>>]}

Tiny1x1 == from_pixel(1, 1, Black)
Tall1x2 == from_pixel(1, 2, Black)

\* The border patterns of the estimator's images: the border pixels take the
\* colours of a cycle in turn, in row-major order.
BorderCycles ==
    {<<Tan>>, <<Tan, Tan2>>, <<Tan, Clear>>, <<Tan2, Clear, Faded, Clear>>,
     <<Clear>>, <<Clear, Faded>>, <<Tan, Blue>>, <<Tan, Tan, Blue>>,
     <<Tan, Tan2, Tan, Blue, Clear>>, Palette6,
     <<Tan, Clear, Clear, Clear, Clear, Faded, Tan2, Clear, Clear, Clear, Clear>>}

Interiors == {Tan, Blue, Clear, Red}

BgImage(side, cycle, interior) ==
    ImageOf(side, side,
        [y \in 0..side - 1 |->
            [x \in 0..side - 1 |->
                IF InBorder([w |-> side, h |-> side], x, y)
                THEN cycle[((x + side * y) % Len(cycle)) + 1]
                ELSE interior]])

BgImages == {BgImage(BgSide, c, i) : c \in BorderCycles, i \in Interiors}

\* Eleven colours of eleven buckets in turn: no bucket holds 0.1 of them.
Palette11 == [i \in 1..11 |-> <<8 * i, 0, 0, 255>>]

\* Values of --bg.
Str_white == <<"#", "F", "F", "F", "F", "F", "F">>
Str_black == <<"0", "0", "0", "0", "0", "0">>
Str_Auto_spaced == <<" ", "A", "u", "t", "o", " ">>
Str_Transparent == <<"T", "r", "a", "n", "s", "p", "a", "r", "e", "n", "t">>
Str_bad_len == <<"#", "F", "F", "F">>
Str_bad_hex == <<"#", "G", "G", "0", "0", "0", "0">>
Str_signed == <<"+", "F", "+", "F", "+", "F", "8", "0">>

\* Values of --pad-x, --pad-y and --all near the top of u32.
Pow31 == <<K16 \div 2, 0>>
Pow31m1 == <<K16 \div 2 - 1, K16 - 1>>

\* <<pad_x, pad_y, all>>; clap rejects --all together with --pad-x or --pad-y
\* (conflicts_with, lines 20 and 24), so main never sees such a command line.
ExplicitPads ==
    {<<None, None, Some(ToU32(0))>>, <<None, None, Some(ToU32(1))>>,
     <<Some(ToU32(2)), None, None>>, <<None, Some(ToU32(1)), None>>,
     <<Some(ToU32(10)), Some(ToU32(10)), None>>,
     <<Some(ToU32(10)), Some(ToU32(12)), None>>,
     <<None, None, Some(Pow31)>>, <<None, None, Some(Pow31m1)>>,
     <<Some(U32Max), None, None>>, <<Some(Pow31), Some(Pow31m1), None>>}

AutoPads == <<None, None, None>>

ArgsOf(pads, bgstr, nocrop, debug) ==
    [pad_x |-> pads[1], pad_y |-> pads[2], all |-> pads[3], bg |-> bgstr,
     no_crop |-> nocrop, debug_crop |-> debug]

\* A file already at the destination.
OldImage == from_pixel(1, 1, Grey)

\* The state main starts in.
\* The markdown files: one todo; two todos, the first with a continuation
\* line and a blank line, and a checked one; a todo with characters the shell
\* treats specially; no unchecked todo; an empty file.
Todo_one == <<"-", " ", "[", " ", "]", " ", "a", "\n">>
Todo_two ==
    <<"-", " ", "[", " ", "]", " ", "a", "\n", " ", " ", "b", "\n", "\n",
      "*", " ", "[", "]", " ", "c", "\n", "-", " ", "[", "x", "]", " ",
      "d", "\n">>
Todo_quote ==
    <<"+", " ", "[", " ", "]", " ", "i", "t", "'", "s", " ", "$", "x",
      "\n">>
Todo_checked ==
    <<"-", " ", "[", "x", "]", " ", "d", "\n", "-", "[", " ", "]", " ",
      "e", "\n">>
Todo_empty == <<>>

\* The harness commands after "run": separate arguments, one string that is
\* split, no {item}, and a string with an unbalanced quote.
Harness_args == <<<<"c">>, ItemToken>>
Harness_single == <<<<"c", " ", "'", "-", "p", " ", "q", "'", " ">> \o ItemToken>>
Harness_no_item == <<<<"c">>>>
Harness_unbalanced == <<<<"c", " ", "'">> \o ItemToken>>

\* The line read from the standard input: nothing (end of input), and
\* answers; None is a read that fails.
Answer_eof == <<>>
Answer_enter == <<"\n">>
Answer_y == <<"y", "\n">>
Answer_Y == <<"Y", "\n">>
Answer_yes_spaced == <<" ", "Y", "e", "s", " ", "\n">>
Answer_n == <<"n", "\n">>
Answer_no == <<"n", "o", "\n">>
Answer_yess == <<"y", "e", "s", "s", "\n">>
Answer_y_y == <<"y", " ", "y", "\n">>
Answers ==
    {Answer_eof, Answer_enter, Answer_y, Answer_Y, Answer_yes_spaced,
     Answer_n, Answer_no, Answer_yess, Answer_y_y}

Prefix_do == <<"d", "o", ":", " ", "\n">>
Suffix_thanks == <<"\n", " ", "t", "h", "a", "n", "k", "s">>

CliOf(prefix, suffix, flags, harness_cmd) ==
    [prefix |-> prefix, suffix |-> suffix, replace |-> flags[1],
     dry_run |-> flags[2], attach |-> flags[3], yes |-> flags[4],
     harness_cmd |-> harness_cmd]

\* The spawn tool does not run.
SpawnOff ==
    /\ s_pc = "off"
    /\ cli = None
    /\ todo_file = None
    /\ stdin = None
    /\ prompts = <<>>
    /\ harness = None
    /\ tmux = NoTmux
    /\ tmux_log = <<>>
    /\ s_out = <<>>
    /\ s_err = ""

\* The rmdbg tool does not run.
RmdbgOff ==
    /\ r_pc = "off"
    /\ path = <<>>
    /\ temp_path = None
    /\ original = <<>>
    /\ r_lines = <<>>
    /\ r_i = 0
    /\ buffer = <<>>
    /\ pending = <<>>
    /\ writer = [buf |-> <<>>, at |-> "none", failed |-> FALSE]
    /\ r_err = ""

\* The lines of the Python files: code, a blank line, the two imports, the
\* two calls, the import and the call on one line, and a comment that is
\* as long as the writer's buffer.
Line_code == <<"x", " ", "=", " ", "1">>
Line_blank == <<>>
Line_import_pdb == <<"i", "m", "p", "o", "r", "t", " ", "p", "d", "b">>
Line_import_ipdb ==
    <<" ", " ", "i", "m", "p", "o", "r", "t", " ", " ", "i", "p", "d", "b",
      " ">>
Line_trace_pdb ==
    <<"p", "d", "b", ".", "s", "e", "t", "_", "t", "r", "a", "c", "e", "(",
      ")">>
Line_trace_ipdb ==
    <<" ", " ", "i", "p", "d", "b", ".", "s", "e", "t", "_", "t", "r", "a",
      "c", "e", "(", ")">>
Line_single ==
    <<"i", "m", "p", "o", "r", "t", " ", "p", "d", "b", ";", " ", "p", "d",
      "b", ".", "s", "e", "t", "_", "t", "r", "a", "c", "e", "(", ")">>
Line_comment ==
    <<"#", " ", "p", "d", "b", ".", "s", "e", "t", "_", "t", "r", "a", "c",
      "e", "(", ")">>
Vocabulary ==
    {Line_code, Line_blank, Line_import_pdb, Line_import_ipdb, Line_trace_pdb,
     Line_trace_ipdb, Line_single, Line_comment}

\* More lines: a tab, the one line with two modules, lines that only begin
\* like an import or a call.
Line_tab == <<"\t">>
Line_single_mixed ==
    <<"i", "m", "p", "o", "r", "t", " ", "i", "p", "d", "b", ";", "p", "d",
      "b", ".", "s", "e", "t", "_", "t", "r", "a", "c", "e", "(", ")", " ">>
Line_import_as ==
    <<"i", "m", "p", "o", "r", "t", " ", "p", "d", "b", " ", "a", "s", " ",
      "p">>
Line_import_pdbx == <<"i", "m", "p", "o", "r", "t", " ", "p", "d", "b", "x">>
Line_trace_arg ==
    <<"p", "d", "b", ".", "s", "e", "t", "_", "t", "r", "a", "c", "e", "(",
      ")", " ", "#", " ", "x">>

MaxLines == 3

\* The content of a file of the lines, each ended by "\n".
RECURSIVE Unlines(_)
Unlines(lines) ==
    IF lines = <<>> THEN <<>> ELSE lines[1] \o <<"\n">> \o Unlines(Tail(lines))

\* Longer files: an import, blank lines, its call; an import, blank lines, the
\* other module's call; the lines that only look like debugging.
LongFiles ==
    {<<Line_import_pdb, Line_blank, Line_tab, Line_trace_pdb, Line_code>>,
     <<Line_code, Line_import_pdb, Line_blank, Line_blank, Line_trace_ipdb, Line_code>>,
     <<Line_import_ipdb, Line_tab, Line_trace_ipdb, Line_import_ipdb, Line_blank>>,
     <<Line_single_mixed, Line_import_as, Line_import_pdbx, Line_trace_arg>>,
     <<Line_import_pdb, Line_import_pdb, Line_trace_pdb, Line_trace_pdb>>,
     <<Line_import_pdb, Line_single, Line_trace_pdb, Line_comment, Line_comment>>}

\* Files whose lines end with "\r\n", and whose last line has no end.
OddFiles ==
    {Line_code \o <<"\r", "\n">> \o Line_import_pdb \o <<"\r", "\n">>
         \o Line_trace_pdb \o <<"\r", "\n">> \o Line_comment \o <<"\r", "\n">>,
     Line_code \o <<"\n">> \o Line_import_pdb,
     Line_import_pdb \o <<"\n", "\n">> \o Line_trace_pdb,
     Line_code \o <<"\r">>}

RmdbgFiles ==
    {Unlines(ls) : ls \in UNION {[1..n -> Vocabulary] : n \in 0..MaxLines}}
        \cup {Unlines(ls) : ls \in LongFiles} \cup OddFiles

InitWith(f, a, d) ==
    /\ SpawnOff
    /\ RmdbgOff
    /\ pc = "start"
    /\ args = a
    /\ file = f
    /\ dest = d
    /\ rgba = None
    /\ bg = None
    /\ sample = None
    /\ border = None
    /\ crop_result = None
    /\ pad = None
    /\ dims = None
    /\ canvas = None
    /\ reads = 0
    /\ writes = 0
    /\ stages = <<>>
    /\ stderr = <<>>
    /\ err = ""

PipeImages ==
    {KindImage(CropWidth, <<"solid">>),
     KindImage(CropWidth, <<"solid", "solid", "blank", "solid">>),
     KindImage(CropWidth, <<"solid", "solid", "blank", "blank", "faint">>),
     KindImage(2, <<"solid", "blank", "solid">>),
     Tiny1x1, Tall1x2} \cup Degenerate

\* The whole pipeline: every padding request on every image (cropping with
\* no file at the destination, and not cropping with one), every background
\* request with the automatic padding, and an input that does not decode.
Init ==
    \/ \E image \in PipeImages, pads \in ExplicitPads,
          bgstr \in {Str_white, Str_auto},
          run \in {<<FALSE, None>>, <<TRUE, Some(OldImage)>>} :
          InitWith(Some(image), ArgsOf(pads, bgstr, run[1], FALSE), run[2])
    \/ \E image \in {Tiny1x1, KindImage(CropWidth, <<"solid", "solid", "blank", "solid">>)},
          bgstr \in {Str_auto, Str_Auto_spaced, Str_white, Str_black,
                     Str_Transparent, Str_bad_len, Str_bad_hex, Str_signed},
          run \in {<<FALSE, None>>, <<TRUE, Some(OldImage)>>} :
          InitWith(Some(image), ArgsOf(AutoPads, bgstr, FALSE, run[1]), run[2])
    \/ \E pads \in {AutoPads, <<None, None, Some(ToU32(1))>>} :
          InitWith(Some(Rainbow), ArgsOf(pads, Str_auto, FALSE, FALSE), None)
    \/ \E d \in {None, Some(OldImage)} :
          InitWith(None, ArgsOf(AutoPads, Str_auto, FALSE, FALSE), d)

Next ==
    \/ Open
    \/ ParseBg
    \/ SampleBorder
    \/ Scan
    \/ BorderDecide
    \/ OverallDecide
    \/ Crop
    \/ ResolvePadding
    \/ PaddedDimensions
    \/ Compose
    \/ Save
    \/ SaveFail

Spec == Init /\ [][Next]_vars

\* The pipeline up to the crop stage, on every image of up to MaxRows rows of
\* the three kinds.
CropInit ==
    \/ \E image \in KindImages(CropWidth, MaxRows) :
          InitWith(Some(image), ArgsOf(AutoPads, Str_white, FALSE, FALSE), None)
    \/ \E image \in KindImages(CropWidth, MaxAutoRows),
          bgstr \in {Str_auto, Str_black, Str_Transparent}, nocrop \in BOOLEAN :
          InitWith(Some(image), ArgsOf(AutoPads, bgstr, nocrop, FALSE), None)
    \/ \E h \in ScenarioHeights :
          InitWith(Some(ScenarioImage(2 * CropWidth, h)),
                   ArgsOf(AutoPads, Str_white, FALSE, FALSE), None)
    \/ \E image \in Degenerate \cup {Rainbow}, bgstr \in {Str_auto, Str_white} :
          InitWith(Some(image), ArgsOf(AutoPads, bgstr, FALSE, FALSE), None)
    \/ \E image \in RuleImages :
          InitWith(Some(image), ArgsOf(AutoPads, Str_white, FALSE, FALSE), None)

CropNext ==
    \/ Open
    \/ ParseBg
    \/ SampleBorder
    \/ Scan
    \/ BorderDecide
    \/ OverallDecide
    \/ Crop

CropSpec == CropInit /\ [][CropNext]_vars

\* The pipeline up to the background, on the estimator's images.
BgInit ==
    \E image \in BgImages \cup Degenerate \cup {BgImage(BgSide, Palette11, Clear)} :
        InitWith(Some(image), ArgsOf(AutoPads, Str_auto, FALSE, FALSE), None)

BgNext ==
    \/ Open
    \/ SampleBorder
    \/ Scan
    \/ BorderDecide
    \/ OverallDecide

BgSpec == BgInit /\ [][BgNext]_vars

\* The padify tool does not run.
PadifyOff ==
    /\ pc = "off"
    /\ args = None
    /\ file = None
    /\ dest = None
    /\ rgba = None
    /\ bg = None
    /\ sample = None
    /\ border = None
    /\ crop_result = None
    /\ pad = None
    /\ dims = None
    /\ canvas = None
    /\ reads = 0
    /\ writes = 0
    /\ stages = <<>>
    /\ stderr = <<>>
    /\ err = ""

\* process_file on a file of the given content.
RmdbgInit ==
    /\ PadifyOff
    /\ SpawnOff
    /\ r_pc = "start"
    /\ path \in RmdbgFiles
    /\ original = path
    /\ temp_path = None
    /\ r_lines = <<>>
    /\ r_i = 0
    /\ buffer = <<>>
    /\ pending = <<>>
    /\ writer = [buf |-> <<>>, at |-> "none", failed |-> FALSE]
    /\ r_err = ""

RmdbgNext ==
    \/ RmdbgOpen
    \/ RmdbgScan
    \/ RmdbgWrite
    \/ RmdbgRename
    \/ RmdbgDrop

RmdbgSpec == RmdbgInit /\ [][RmdbgNext]_vars

SpawnInitWith(f, c, in) ==
    /\ PadifyOff
    /\ RmdbgOff
    /\ s_pc = "start"
    /\ cli = c
    /\ todo_file = f
    /\ stdin = in
    /\ prompts = <<>>
    /\ harness = None
    /\ tmux = NoTmux
    /\ tmux_log = <<>>
    /\ s_out = <<>>
    /\ s_err = ""

\* The spawn tool: every combination of the four flags with every answer on
\* two files; every harness command and every file with and without --dry-run;
\* a prefix and a suffix.
SpawnInit ==
    \/ \E f \in {Todo_one, Todo_two}, flags \in [1..4 -> BOOLEAN],
          in \in {None} \cup {Some(a) : a \in Answers} :
          SpawnInitWith(Some(f),
                        CliOf(None, None, flags, Harness_args), in)
    \/ \E f \in {None, Some(Todo_one), Some(Todo_two), Some(Todo_quote),
                 Some(Todo_checked), Some(Todo_empty)},
          h \in {Harness_args, Harness_single, Harness_no_item, Harness_unbalanced},
          dry \in BOOLEAN, rep \in BOOLEAN :
          SpawnInitWith(f, CliOf(None, None, <<rep, dry, FALSE, TRUE>>, h),
                        Some(Answer_eof))
    \/ \E prefix \in {None, Some(Prefix_do), Some(<<" ">>)},
          suffix \in {None, Some(Suffix_thanks)}, dry \in BOOLEAN :
          SpawnInitWith(Some(Todo_two),
                        CliOf(prefix, suffix, <<FALSE, dry, FALSE, FALSE>>,
                              Harness_single), Some(Answer_Y))

SpawnNext ==
    \/ SpawnRead
    \/ SpawnDryRun
    \/ SpawnNormalize
    \/ SpawnConfirm
    \/ TmuxHasSession
    \/ TmuxKillSession
    \/ TmuxNewSession
    \/ TmuxListWindows
    \/ TmuxNewWindow
    \/ TmuxSendLiteral
    \/ TmuxSendEnter
    \/ SpawnFinish

SpawnSpec == SpawnInit /\ [][SpawnNext]_vars

(***************************************************************************)
(* The claims.                                                             *)
(***************************************************************************)
CropReasons ==
    {"disabled", "empty", "no_clusters", "partial_line", "cursor_residue", "clean"}

\* C1: on every path of the crop stage the report's original_height is the
\* input's height, its new_height is the returned image's height, and
\* new_height <= original_height.
C1_CropNeverGrows ==
    crop_result # None =>
        LET report == crop_result[1].report
        IN  /\ report.reason \in CropReasons
            /\ report.original_height = rgba[1].h
            /\ report.new_height = crop_result[1].image.h
            /\ report.new_height <= report.original_height

\* A crop by the cursor/residue rule has happened.
C1_Witness ==
    /\ crop_result # None
    /\ crop_result[1].report.reason = "cursor_residue"
    /\ crop_result[1].report.new_height < crop_result[1].report.original_height

\* C2: the canvas is (w + 2*px) by (h + 2*py) for the cropped image's (w, h)
\* and the resolved padding (px, py); its pixels inside the rectangle at
\* (px, py) are the cropped image's, and every other pixel is the background.
C2_PaddingExact ==
    canvas # None =>
        LET source == crop_result[1].image
            px == pad[1][1][2]
            py == pad[1][2][2]
            c == canvas[1]
        IN  /\ pad[1][1][1] = 0 /\ pad[1][2][1] = 0
            /\ c.w = source.w + 2 * px
            /\ c.h = source.h + 2 * py
            /\ dims[1] = <<ToU32(c.w), ToU32(c.h)>>
            /\ \A y \in 0..c.h - 1 : \A x \in 0..c.w - 1 :
                  GetPixel(c, x, y) =
                      IF /\ px <= x /\ x < px + source.w
                         /\ py <= y /\ y < py + source.h
                      THEN GetPixel(source, x - px, y - py)
                      ELSE bg[1]

\* A canvas with a border around an image that is not all background.
C2_Witness ==
    /\ canvas # None
    /\ pad[1][1][2] > 0
    /\ crop_result[1].image.w > 1
    /\ crop_result[1].image.h > 1
    /\ GetPixel(crop_result[1].image, 0, 0) # bg[1]

\* w + 2 * p as a natural, in units of 2^16 and a remainder, for u32s w and p.
Wide(w, p) ==
    LET lo == w[2] + 2 * p[2]
    IN  <<w[1] + 2 * p[1] + lo \div K16, lo % K16>>

OverflowErrors ==
    {"horizontal padding is too large", "vertical padding is too large",
     "resulting width is too large", "resulting height is too large"}

\* C3: padded_dimensions fails exactly when w + 2*pad_x or h + 2*pad_y is
\* above u32::MAX (as it is whenever 2*pad_x or 2*pad_y is), and otherwise
\* returns exactly these two sums; when it fails there is no canvas and
\* nothing is written.
C3_OverflowRejected ==
    (Len(stages) >= 5 /\ stages[5] = "padded_dimensions") =>
        LET image == crop_result[1].image
            new_w == Wide(ToU32(image.w), pad[1][1])
            new_h == Wide(ToU32(image.h), pad[1][2])
            overflow == new_w[1] >= K16 \/ new_h[1] >= K16
        IN  /\ overflow <=> dims = None
            /\ dims # None => dims[1] = <<new_w, new_h>>
            /\ dims = None => /\ pc = "error"
                              /\ err \in OverflowErrors
                              /\ canvas = None
                              /\ writes = 0
                              /\ Len(stages) = 5

\* The doubling succeeds and the addition does not.
C3_Witness ==
    /\ pc = "error"
    /\ err = "resulting width is too large"
    /\ pad[1][1] = Pow31m1

ConflictError == "pad-x and pad-y must be equal (or use --all/--pad)"

\* --pad-x and --pad-y both given, with different values, and no --all.
Conflict(a) ==
    /\ a.all = None
    /\ a.pad_x # None
    /\ a.pad_y # None
    /\ a.pad_x # a.pad_y

\* C4: resolve_padding fails, with the configuration error, exactly when there
\* is no --all and --pad-x and --pad-y are both given and differ; every
\* result it returns has equal horizontal and vertical padding.
C4_EqualPadding ==
    (Len(stages) >= 4 /\ stages[4] = "resolve_padding") =>
        /\ pad = None <=> Conflict(args)
        /\ pad = None => pc = "error" /\ err = ConflictError
        /\ pad # None => pad[1][1] = pad[1][2]
        /\ (pad # None /\ args.all = None /\ args.pad_x # None)
              => pad[1][1] = args.pad_x[1]

\* --pad-x 10 --pad-y 12 has been rejected.
C4_Witness ==
    /\ pc = "error"
    /\ err = ConflictError
    /\ args.pad_x = Some(ToU32(10))
    /\ args.pad_y = Some(ToU32(12))

\* C5, as the specification states it: a run that ends with the padding
\* conflict has neither estimated or parsed a background nor run the crop
\* stage.
C5_RejectedBeforeComputation ==
    err = ConflictError =>
        /\ bg = None
        /\ crop_result = None
        /\ \A i \in 1..Len(stages) : stages[i] \notin {"background", "crop"}

\* C5: the padding conflict is rejected by resolve_padding, which main calls
\* after the image is decoded, the background determined and the crop stage
\* run, and before the canvas is sized, allocated or written: a conflicting
\* command line never gets past resolve_padding, and the run that ends with
\* the conflict has done exactly open, background, crop, resolve_padding.
C5_RejectedBeforeCanvas ==
    /\ Conflict(args) =>
          /\ pc \notin {"padded", "sized", "composed", "done", "abort"}
          /\ pad = None /\ dims = None /\ canvas = None
          /\ writes = 0
    /\ err = ConflictError =>
          /\ Conflict(args)
          /\ pc = "error"
          /\ stages = <<"open", "background", "crop", "resolve_padding">>
          /\ reads = 1
          /\ bg # None
          /\ crop_result # None

\* The conflict is reported after the background was estimated from the
\* image's border and the crop stage has looked for clusters.
C5_Witness ==
    /\ err = ConflictError
    /\ IsAuto(args)
    /\ border # None
    /\ bg = Some(Black)
    /\ crop_result[1].report.reason \in {"clean", "no_clusters"}

AllStages ==
    <<"open", "background", "crop", "resolve_padding", "padded_dimensions",
      "canvas", "save">>

C6_State ==
    /\ reads = (IF pc = "start" THEN 0 ELSE 1)
    /\ writes <= 1
    /\ writes = 1 => /\ stages = AllStages
                     /\ bg # None /\ crop_result # None /\ pad # None
                     /\ dims # None /\ canvas # None
    /\ (pc \in {"error", "abort"} /\ err # "save") => writes = 0

C6_Step ==
    /\ reads' # reads => pc = "start"
    /\ (writes' # writes \/ dest' # dest) =>
          /\ pc = "composed"
          /\ writes' = writes + 1
          /\ dest' = canvas \/ pc' = "error"

\* C6: the input is read once, at the start; the destination is written at
\* most once, and only when open, background, crop, resolve_padding,
\* padded_dimensions and the canvas have succeeded; no other step, and so no
\* run that fails at one of them, changes the destination.
C6_ReadOnceWriteOnce == [](C6_State) /\ [][C6_Step]_vars

\* A run has failed on its colour string with a file at the destination.
C6_Witness ==
    /\ pc = "error"
    /\ err \notin {"open", "save", ConflictError} \cup OverflowErrors
    /\ reads = 1
    /\ writes = 0
    /\ dest = Some(OldImage)

\* The scenario's image has been through the crop stage.
ScenarioRun(h) ==
    /\ crop_result # None
    /\ rgba[1].h = h
    /\ rgba[1] = ScenarioImage(2 * CropWidth, h)
    /\ bg = Some(White)

\* C7, as the specification states it: the image with the two bands that is
\* 200 rows tall, or that ends at row 135, has bottom_margin_major <= 2 and
\* median 41, and is cropped to 120 rows as a partial line.
C7_ScenarioAsStated ==
    (ScenarioRun(200) \/ ScenarioRun(136)) =>
        LET L == CropLocals(rgba[1], bg[1])
        IN  /\ L.bottom_margin_major <= 2
            /\ L.median2 = 2 * 41
            /\ crop_result[1].report.reason = "partial_line"
            /\ crop_result[1].image.h = 120

\* C7: the image with black bands at rows [20, 60] and [120, 130] has the
\* clusters (20, 60) and (120, 130), median 41 and bottom_margin_major
\* h - 131.  When it ends at row 132 or before (h <= 133) the margin is at
\* most 2, 11 < 0.7 * 41, and it is cropped to rows [0, 120) as a partial
\* line; 200 rows tall, or ending at row 133 or 135, it is returned as it
\* is, "clean".
C7_Scenario ==
    \A h \in ScenarioHeights :
        ScenarioRun(h) =>
            LET L == CropLocals(rgba[1], bg[1])
                report == crop_result[1].report
            IN  /\ L.clusters = << <<20, 60>>, <<120, 130>> >>
                /\ L.median2 = 2 * 41
                /\ ClusterHeight(L.clusters[2]) = 11
                /\ L.bottom_margin_major = h - 131
                /\ report.original_height = h
                /\ IF h <= 133
                   THEN /\ report.reason = "partial_line"
                        /\ report.new_height = 120
                        /\ crop_result[1].image = ScenarioImage(2 * CropWidth, 120)
                   ELSE /\ report.reason = "clean"
                        /\ report.new_height = h
                        /\ crop_result[1].image = rgba[1]

\* The image ending at row 132 has been cropped to 120 rows.
C7_Witness ==
    /\ ScenarioRun(133)
    /\ crop_result[1].report.reason = "partial_line"
    /\ crop_result[1].image.h = 120

\* C8: the image the crop stage returns is as wide as its input, each of its
\* pixels is the input's pixel at the same place, and the decoded input is
\* as it was loaded.
C8_BottomSuffixOnly ==
    crop_result # None =>
        LET image == rgba[1]
            out == crop_result[1].image
        IN  /\ rgba = file
            /\ out.w = image.w
            /\ out.h <= image.h
            /\ \A y \in 0..out.h - 1 : \A x \in 0..out.w - 1 :
                  GetPixel(out, x, y) = GetPixel(image, x, y)

\* Rows were removed, and the rows kept differ from the rows at the bottom.
C8_Witness ==
    /\ crop_result # None
    /\ 0 < crop_result[1].image.h
    /\ crop_result[1].image.h < rgba[1].h
    /\ rgba[1].rows[1] # rgba[1].rows[rgba[1].h]

\* The border samples of an image of fewer than 200 pixels a side (every
\* pixel of the band is sampled) that are not near-transparent.
OpaqueBorder(image) ==
    {p \in (0..image.w - 1) \X (0..image.h - 1) :
        InBorder(image, p[1], p[2]) /\ GetPixel(image, p[1], p[2])[4] > 5}

\* The sum of channel c over the pixels of the image that are in the set.
ChannelSum(image, points, c) ==
    LET Add(total, i) ==
            LET p == <<i % image.w, i \div image.w>>
            IN  IF p \in points THEN total + GetPixel(image, p[1], p[2])[c]
                ELSE total
    IN  ForRange(Add, 0, 0, image.w * image.h)

\* C9: when the border samples that are not near-transparent all fall in one
\* bucket, the background is the mean of these samples, channel by channel
\* (the integer quotient of their sum and their number), whatever the
\* number of near-transparent border samples and whatever the interior.
C9_SingleBucketMean ==
    (pc = "bg_done" /\ rgba # None /\ border # None) =>
        LET image == rgba[1]
            points == OpaqueBorder(image)
            keys == {quantize_key(GetPixel(image, p[1], p[2])) : p \in points}
            n == Cardinality(points)
        IN  Cardinality(keys) = 1 =>
                bg = Some([c \in 1..4 |-> ChannelSum(image, points, c) \div n])

\* One bucket holds the border's samples, fewer than 0.2 of the border's
\* samples are in it, the others being near-transparent, the bucket's mean is
\* none of its pixels, and the interior is of another colour.
C9_Witness ==
    /\ pc = "bg_done"
    /\ border # None
    /\ border[1].best # None
    /\ border[1].best[1].count = border[1].total - border[1].transparent
    /\ border[1].best[1].count * 5 < border[1].total
    /\ bg \notin {Some(Tan), Some(Tan2)}
    /\ GetPixel(rgba[1], BgSide \div 2, BgSide \div 2) = Blue

\* The keys of the buckets whose count is above every other bucket's.
StrictMax(buckets) ==
    {k \in DOMAIN buckets :
        \A j \in DOMAIN buckets \ {k} : buckets[k].count > buckets[j].count}

\* The SampleResult of a pass when one bucket is above the others or there
\* is no bucket, None when the largest count is tied.
Untied(image, pass) ==
    LET acc == SampleImage(image, pass)
        top == StrictMax(acc.buckets)
    IN  IF DOMAIN acc.buckets = {}
        THEN Some([total |-> acc.total, transparent |-> acc.transparent,
                   best |-> None])
        ELSE IF top = {} THEN None
        ELSE Some([total |-> acc.total, transparent |-> acc.transparent,
                   best |-> Some(acc.buckets[CHOOSE k \in top : TRUE])])

\* The background of an image whose passes have no tie, None otherwise.
UntiedBackground(image) ==
    LET b == Untied(image, "border")
    IN  IF b = None THEN None
        ELSE IF color_if_confident(b[1], border_confidence) # None
        THEN color_if_confident(b[1], border_confidence)
        ELSE IF TransparentAtLeast(b[1], transparent_share) THEN Some(Clear)
        ELSE LET o == Untied(image, "overall")
             IN  IF o = None THEN None
                 ELSE IF color_if_confident(o[1], overall_confidence) # None
                 THEN color_if_confident(o[1], overall_confidence)
                 ELSE Some(Clear)

\* C10: in every order of the scan, once the bucket whose count is above
\* every other's has been seen it is the best, and so it is at the end of
\* the scan; and the background of an image whose passes have no tie for the
\* largest count is the same in every order.
C10_OrderIndependent ==
    /\ (pc \in {"border_scan", "overall_scan"}) =>
          \A k \in StrictMax(sample[1].buckets) :
              k \notin sample[1].todo =>
                  /\ sample[1].best = Some(sample[1].buckets[k])
                  /\ sample[1].best_count = sample[1].buckets[k].count
    /\ (pc = "bg_done" /\ rgba # None /\ border # None) =>
          LET expected == UntiedBackground(rgba[1])
          IN  expected # None => bg = expected

\* A scan of three buckets or more has ended, one bucket above the others.
C10_Witness ==
    /\ pc \in {"border_scan", "overall_scan"}
    /\ sample[1].todo = {}
    /\ Cardinality(DOMAIN sample[1].buckets) >= 3
    /\ StrictMax(sample[1].buckets) # {}
    /\ sample[1].best # None

(***************************************************************************)
(* The decision of the background estimator.                               *)
(***************************************************************************)
\* The pixels of an image of fewer than 200 pixels a side (every pixel is
\* sampled): all of them, and those of the border band.
AllPoints(image) == (0..image.w - 1) \X (0..image.h - 1)
BorderPoints(image) == {p \in AllPoints(image) : InBorder(image, p[1], p[2])}

\* The function f, worked out once for all its arguments.
Table(f) == IF f = f THEN f ELSE f

\* Of the points, those that are not near-transparent.
Opaque(image, points) == {p \in points : GetPixel(image, p[1], p[2])[4] > 5}

\* The means of the buckets that hold the most of the points (one bucket,
\* unless several hold as many), when such a bucket holds at least the
\* share of the points; the empty set when not.
ConfidentMeans(image, points, share) ==
    LET pixel == Table([p \in points |-> GetPixel(image, p[1], p[2])])
        key == Table([p \in points |-> quantize_key(pixel[p])])
        keys == {key[p] : p \in points}
        bucket == Table([k \in keys |-> {p \in points : key[p] = k}])
        size == Table([k \in keys |-> Cardinality(bucket[k])])
        most == {k \in keys : \A j \in keys : size[j] <= size[k]}
        Sum(k, c) ==
            LET Add(total, i) ==
                    LET p == <<i % image.w, i \div image.w>>
                    IN  IF p \in bucket[k] THEN total + pixel[p][c] ELSE total
            IN  ForRange(Add, 0, 0, image.w * image.h)
    IN  {<<Sum(k, 1) \div size[k], Sum(k, 2) \div size[k],
           Sum(k, 3) \div size[k], Sum(k, 4) \div size[k]>> :
            k \in {m \in most : size[m] * share[2] >= share[1] * Cardinality(points)}}

\* The border pass decides: a bucket is confident, or 60% of the border
\* samples and more are near-transparent.
BorderSettles(image) ==
    LET all == BorderPoints(image)
        seen == Opaque(image, all)
    IN  \/ ConfidentMeans(image, seen, <<2, 10>>) # {}
        \/ 10 * (Cardinality(all) - Cardinality(seen)) >= 6 * Cardinality(all)

\* The backgrounds the ordered decision allows for the image.
Decision(image) ==
    IF image.w = 0 \/ image.h = 0 THEN {Clear}
    ELSE LET seen == Opaque(image, BorderPoints(image))
             whole == Opaque(image, AllPoints(image))
         IN  IF ConfidentMeans(image, seen, <<2, 10>>) # {}
             THEN ConfidentMeans(image, seen, <<2, 10>>)
             ELSE IF BorderSettles(image) THEN {Clear}
             ELSE IF ConfidentMeans(image, whole, <<1, 10>>) # {}
             THEN ConfidentMeans(image, whole, <<1, 10>>)
             ELSE {Clear}

\* The estimator was asked for the background and has answered.
Estimated == pc = "bg_done" /\ IsAuto(args) /\ rgba # None

\* C14: the estimated background is what the ordered decision gives: (0,0,0,0)
\* for an image without rows or columns; the mean of the best border bucket
\* when it holds 0.2 or more of the border samples that are not
\* near-transparent; else (0,0,0,0) when 0.6 or more of the border samples are
\* near-transparent; else the mean of the best bucket of the whole image when
\* it holds 0.1 or more; else (0,0,0,0).  A whole-image pass comes to its
\* end only when the border pass has not settled the answer.
C14_OrderedDecision ==
    /\ Estimated => bg[1] \in Decision(rgba[1])
    /\ (pc = "overall_scan" /\ sample[1].todo = {}) => ~BorderSettles(rgba[1])

\* The border was neither confident nor mostly near-transparent, and the
\* whole image gave a colour.
C14_Witness ==
    /\ Estimated
    /\ border # None
    /\ color_if_confident(border[1], border_confidence) = None
    /\ ~TransparentAtLeast(border[1], transparent_share)
    /\ bg # Some(Clear)

(***************************************************************************)
(* The two rules of the crop stage.                                        *)
(***************************************************************************)
\* The crop stage has run, with cropping enabled, on an image that has rows
\* and columns.
CropRan ==
    /\ crop_result # None
    /\ ~args.no_crop
    /\ rgba[1].w > 0
    /\ rgba[1].h > 0

\* The clusters of the claims: the maximal runs <<first, last>> of major rows
\* (rows numbered from 0), from the top down.
MajorRuns(major) ==
    LET h == Len(major)
        runs == {r \in (0..h - 1) \X (0..h - 1) :
                    /\ r[1] <= r[2]
                    /\ \A y \in r[1]..r[2] : major[y + 1]
                    /\ (r[1] = 0 \/ ~major[r[1]])
                    /\ (r[2] = h - 1 \/ ~major[r[2] + 2])}
    IN  [i \in 1..Cardinality(runs) |->
            CHOOSE r \in runs : Cardinality({q \in runs : q[1] < r[1]}) = i - 1]

\* The rows below the last major row.
TrailingRows(major) ==
    IF \E y \in 1..Len(major) : major[y]
    THEN Len(major) - (CHOOSE y \in 1..Len(major) :
                          major[y] /\ \A z \in y + 1..Len(major) : ~major[z])
    ELSE Len(major)

\* Twice the median of the candidate heights: the heights of at least 4 of
\* the clusters but the last, or of all the clusters when there is none.
CandidateMedian2(runs) ==
    LET height(r) == r[2] - r[1] + 1
        tall == SelectSeq([i \in 1..Len(runs) - 1 |-> height(runs[i])],
                          LAMBDA v : v >= 4)
        all == [i \in 1..Len(runs) |-> height(runs[i])]
    IN  median_u32(IF tall = <<>> THEN all ELSE tall)[1]

\* The test of the partial-line rule, in exact arithmetic:
\* last height < 0.7 * median is 20 * last height < 7 * (2 * median).
PartialLineDue(major) ==
    LET runs == MajorRuns(major)
        last == runs[Len(runs)]
    IN  /\ Len(runs) >= 2
        /\ TrailingRows(major) <= 2
        /\ 20 * (last[2] - last[1] + 1) < 7 * CandidateMedian2(runs)

\* C12: on an image with rows and columns, the reason is "no_clusters" when
\* no row is major; otherwise it is "partial_line" exactly when there are two
\* clusters or more, at most 2 rows below the last major row and the last
\* cluster is less than 0.7 of the median of the candidate heights tall, and
\* then new_height is the first row of the last cluster, whether the
\* cursor/residue rule would crop too or not.
C12_PartialLineFirst ==
    CropRan =>
        LET major == RowsAbove(rgba[1], bg[1], major_threshold)
            report == crop_result[1].report
        IN  IF \A y \in 1..Len(major) : ~major[y]
            THEN /\ report.reason = "no_clusters"
                 /\ report.new_height = rgba[1].h
            ELSE /\ (report.reason = "partial_line") <=> PartialLineDue(major)
                 /\ report.reason = "partial_line" =>
                       LET runs == MajorRuns(major)
                       IN  /\ report.new_height = runs[Len(runs)][1]
                           /\ crop_result[1].image.h = runs[Len(runs)][1]
                 /\ report.reason # "no_clusters"

\* A partial line was cropped where the cursor/residue rule would have
\* cropped too, at another row.
C12_Witness ==
    /\ CropRan
    /\ crop_result[1].report.reason = "partial_line"
    /\ LET residue == CursorResidue(rgba[1], CropLocals(rgba[1], bg[1]))
       IN  /\ residue # None
           /\ residue[1].report.new_height # crop_result[1].report.new_height

\* The last row (numbered from 0) of the rows that holds TRUE; -1 for none.
LastRow(rows) ==
    IF \E y \in 1..Len(rows) : rows[y]
    THEN (CHOOSE y \in 1..Len(rows) : rows[y] /\ \A z \in y + 1..Len(rows) : ~rows[z]) - 1
    ELSE -1

\* The first row of the block of minor rows that ends at the last minor row.
StartMinor(minor) ==
    CHOOSE y \in 0..LastRow(minor) :
        /\ \A z \in y..LastRow(minor) : minor[z + 1]
        /\ (y = 0 \/ ~minor[y])

\* The test of the cursor/residue rule, in exact arithmetic on median2, twice
\* the line height: 0.35 * line_height is 7 * median2 / 40, 0.6 * line_height
\* is 3 * median2 / 10, and round(0.2 * line_height) is (median2 + 5) \div 10.
ResidueDue(major, minor) ==
    /\ LastRow(minor) > LastRow(major)
    /\ LET start_minor == StartMinor(minor)
           block_height == LastRow(minor) - start_minor + 1
           gap == Max(0, start_minor - (LastRow(major) + 1))
           median2 == CandidateMedian2(MajorRuns(major))
           min_gap == Max(2, (median2 + 5) \div 10)
       IN  /\ gap >= min_gap \/ (40 * block_height < 7 * median2 /\ gap >= 1)
           /\ 10 * block_height < 3 * median2

\* C13: when there are major rows and the partial-line rule did not crop,
\* the reason is "cursor_residue", with new_height = start_minor, exactly when
\* a minor row lies below the last major row, the gap is at least min_gap (or
\* at least 1 under a block of less than 0.35 of the line height) and the
\* block is less than 0.6 of the line height tall; otherwise the image is
\* returned as it is, "clean".
C13_CursorResidue ==
    CropRan =>
        LET major == RowsAbove(rgba[1], bg[1], major_threshold)
            minor == RowsAbove(rgba[1], bg[1], minor_threshold)
            report == crop_result[1].report
        IN  (LastRow(major) >= 0 /\ report.reason # "partial_line") =>
                IF ResidueDue(major, minor)
                THEN /\ report.reason = "cursor_residue"
                     /\ report.new_height = StartMinor(minor)
                     /\ crop_result[1].image.h = StartMinor(minor)
                ELSE /\ report.reason = "clean"
                     /\ report.new_height = rgba[1].h
                     /\ crop_result[1].image = rgba[1]

\* C15: a crop removes nothing of a cluster but the last.  A cursor/residue
\* crop keeps the last major row and at least one row under it (new_height
\* >= last major row + 2, rows numbered from 0); a partial-line crop keeps
\* every cluster but the last whole; and whenever rows were removed, or one
\* of the two rules is the reason, 2 <= new_height < original_height.
C15_ContentKept ==
    CropRan =>
        LET major == RowsAbove(rgba[1], bg[1], major_threshold)
            report == crop_result[1].report
            out == crop_result[1].image
        IN  /\ report.reason = "cursor_residue" =>
                  /\ report.new_height >= LastRow(major) + 2
                  /\ \A y \in 0..LastRow(major) : out.rows[y + 1] = rgba[1].rows[y + 1]
            /\ report.reason = "partial_line" =>
                  LET runs == MajorRuns(major)
                  IN  \A i \in 1..Len(runs) - 1 :
                          /\ runs[i][2] < report.new_height
                          /\ \A y \in runs[i][1]..runs[i][2] :
                                out.rows[y + 1] = rgba[1].rows[y + 1]
            /\ (\/ report.reason \in {"cursor_residue", "partial_line"}
                \/ report.new_height # report.original_height
                \/ out.h # rgba[1].h) =>
                  /\ 2 <= report.new_height
                  /\ report.new_height < report.original_height
                  /\ out.h = report.new_height
                  /\ report.original_height = rgba[1].h

\* A cursor/residue crop that keeps exactly one row under the last major row.
C15_Witness ==
    /\ CropRan
    /\ crop_result[1].report.reason = "cursor_residue"
    /\ crop_result[1].report.new_height =
          LastRow(RowsAbove(rgba[1], bg[1], major_threshold)) + 2
    /\ crop_result[1].report.new_height < rgba[1].h

(***************************************************************************)
(* The spawn tool.                                                         *)
(***************************************************************************)
\* The answers that are not a yes: once the line end and the blanks around it
\* are dropped and capitals lowered, neither empty, nor y, nor yes.
DecliningAnswers == {Answer_n, Answer_no, Answer_yess, Answer_y_y}

\* The run was asked to confirm and the answer declines.
Declined == ~cli.yes /\ stdin # None /\ stdin[1] \in DecliningAnswers

\* C11: kill-session is run only with --replace and right after a
\* has-session that reported the session to exist; with --dry-run, or when
\* the confirmation is asked (no --yes) and the answer is not a yes, no tmux
\* command is run at all, at any point of the run.
C11_KillOnlyOnReplace ==
    (s_pc # "off") =>
        /\ \A k \in 1..Len(tmux_log) :
              tmux_log[k].cmd = "kill-session" =>
                  /\ cli.replace
                  /\ k > 1
                  /\ tmux_log[k - 1].cmd = "has-session"
                  /\ tmux_log[k - 1].status = "ok"
        /\ (cli.dry_run \/ Declined) => tmux_log = <<>>

\* A run without --yes whose confirmation was answered Y killed the session
\* that has-session had found.
C11_Witness ==
    /\ s_pc = "done"
    /\ ~cli.yes
    /\ stdin = Some(Answer_Y)
    /\ Len(tmux_log) >= 2
    /\ tmux_log[2].cmd = "kill-session"
    /\ tmux_log[2].status = "ok"

(***************************************************************************)
(* The rmdbg tool.                                                         *)
(***************************************************************************)
\* The lines of the files by what they are: the import and the call on one
\* line, a call alone, an import alone, a blank line; and the module of an
\* import or a call.
SingleLines == {Line_single, Line_single_mixed}
CallLines == {Line_trace_pdb, Line_trace_ipdb}
ImportLines == {Line_import_pdb, Line_import_ipdb}
BlankLines == {Line_blank, Line_tab}
ModuleOf(line) ==
    IF line \in {Line_import_pdb, Line_trace_pdb} THEN "pdb" ELSE "ipdb"

\* The lines that are to stay: all but the single lines, the calls alone, and
\* an import with the blank lines after it and the call of its module that
\* follows them.
RECURSIVE Kept(_)
Kept(lines) ==
    IF lines = <<>> THEN <<>>
    ELSE IF lines[1] \in SingleLines \cup CallLines THEN Kept(Tail(lines))
    ELSE IF lines[1] \in ImportLines
    THEN LET blanks == CHOOSE k \in 0..Len(lines) - 1 :
                           /\ \A j \in 2..k + 1 : lines[j] \in BlankLines
                           /\ (k + 2 > Len(lines) \/ lines[k + 2] \notin BlankLines)
             after == SubSeq(lines, blanks + 2, Len(lines))
         IN  IF /\ after # <<>>
                /\ after[1] \in CallLines
                /\ ModuleOf(after[1]) = ModuleOf(lines[1])
             THEN Kept(Tail(after))
             ELSE SubSeq(lines, 1, blanks + 1) \o Kept(after)
    ELSE <<lines[1]>> \o Kept(Tail(lines))

\* What the loop has written: what reached the temp file, and after it what
\* the writer still holds.
Written == temp_path[1] \o writer.buf

\* Between two turns of the loop the written output is the lines to stay of
\* the lines gone through, each with its line end; at the end of the loop,
\* of all the lines.
C16_State ==
    (r_pc = "scan") =>
        /\ r_i <= Len(r_lines)
        /\ Written = Unlines(Kept(SubSeq(r_lines, 1, r_i)))

\* How far the loop is from its end: the lines still to go through (one more
\* while an import and its blank lines are being written, which the loop has
\* gone past already), and within a turn the writes still to make.
Variant ==
    LET turn == 2 * Len(r_lines) + 2
        ahead == Len(r_lines) - r_i
    IN  IF r_pc = "scan" THEN turn * ahead + turn - 1
        ELSE turn * (ahead + (IF buffer # <<>> THEN 1 ELSE 0)) + Len(pending)

\* A step of the loop brings it nearer to its end, or leaves it.
C16_Step ==
    (r_pc \in {"scan", "write"}) =>
        \/ r_pc' \in {"scan", "write"} /\ Variant' < Variant /\ Variant' >= 0
        \/ r_pc' = "drop"

OutputFailed == writer.failed

\* C17: when the temp file is renamed over the path, all that the loop has
\* written is in the temp file, none of it still in the writer; and when a
\* write or a flush of the output has failed, the file at the path is as it
\* was before process_file.
C17_AtomicReplace ==
    /\ (r_pc = "scan" /\ r_i >= Len(r_lines)) =>
          /\ writer.buf = <<>>
          /\ temp_path = Some(Unlines(Kept(r_lines)))
    /\ (r_pc = "done" /\ OutputFailed) => path = original

====
